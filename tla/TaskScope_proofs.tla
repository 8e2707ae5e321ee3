-------------------------- MODULE TaskScope_proofs --------------------------
(***************************************************************************)
(* Proofs about TaskScope, for every set of children and worker tasks, for *)
(* every limit, and with and without a deadline, a host and bodies that    *)
(* catch.                                                                  *)
(***************************************************************************)
EXTENDS TaskScope, TLAPS

-----------------------------------------------------------------------------
(* Sequences of callbacks *)

\* Each kind of callback is about the actor the code hands it to.
LEMMA CallTypes ==
    /\ \A t \in Tasks \union {Block} : Call("resume", t) \in Callbacks
    /\ \A t \in Tasks : Call("request", t) \in Callbacks /\ Call("mark", t) \in Callbacks
    /\ \A w \in Forks : Call("route", w) \in Callbacks /\ Call("cancel", w) \in Callbacks
  BY DEF Call, Callbacks

\* What the callback at the head is about.
LEMMA CallbackShape ==
    ASSUME NEW c \in Callbacks
    PROVE  /\ c.do = "resume" => c.who \in Tasks \union {Block}
           /\ c.do \in {"request", "mark"} => c.who \in Tasks
           /\ c.do \in {"route", "cancel"} => c.who \in Forks
  BY DEF Callbacks

\* The callback that is made next, and what is owed after it.
LEMMA HeadCallback ==
    ASSUME owed \in Seq(Callbacks), owed # <<>>
    PROVE  Head(owed) \in Callbacks /\ Tail(owed) \in Seq(Callbacks)
  OBVIOUS

\* Resumes and requests of children, and cancels of worker tasks.
LEMMA CallAllTypes ==
    /\ \A s \in Seq(Tasks) : /\ CallAll("resume", s) \in Seq(Callbacks)
                             /\ CallAll("request", s) \in Seq(Callbacks)
    /\ \A s \in Seq(Forks) : CallAll("cancel", s) \in Seq(Callbacks)
  BY CallTypes DEF CallAll

\* requestCancellation asks children and cancels worker tasks, nothing else.
LEMMA CancellingType ==
    ASSUME NEW l \in Seq(Tasks), NEW o \in Seq(Forks)
    PROVE  Cancelling(l, o) \in Seq(Callbacks)
  BY CallAllTypes DEF Cancelling

\* A sequence without one of its members has the same type.
LEMMA WithoutType ==
    ASSUME NEW S, NEW s \in Seq(S), NEW x
    PROVE  Without(s, x) \in Seq(S)
  <1>1. CASE \E i \in 1..Len(s) : s[i] = x
    <2> DEFINE k == CHOOSE i \in 1..Len(s) : s[i] = x
    <2>1. k \in 1..Len(s)
      BY <1>1
    <2>4. Without(s, x) = SubSeq(s, 1, k - 1) \o SubSeq(s, k + 1, Len(s))
      BY <1>1 DEF Without, RemoveAt
    <2> HIDE DEF k
    <2>2. SubSeq(s, 1, k - 1) \in Seq(S)
      BY <2>1
    <2>3. SubSeq(s, k + 1, Len(s)) \in Seq(S)
      BY <2>1
    <2> QED
      BY <2>2, <2>3, <2>4
  <1>2. CASE ~\E i \in 1..Len(s) : s[i] = x
    BY <1>2 DEF Without
  <1> QED
    BY <1>1, <1>2

-----------------------------------------------------------------------------
(* What a step leaves alone keeps its type *)

\* A group of variables a step leaves alone keeps its type.
LEMMA SameGroups ==
    ASSUME TypeOK
    PROVE  /\ UNCHANGED schedule => ScheduleOK'
           /\ UNCHANGED slots => SlotsOK'
           /\ UNCHANGED flags => FlagsOK'
           /\ UNCHANGED lanes => LanesOK'
           /\ UNCHANGED host => HostOK'
           /\ UNCHANGED block => BlockOK'
           /\ UNCHANGED <<cpu, act, left, owed>> => ControlOK'
  <1>1. UNCHANGED schedule => ScheduleOK'
    BY DEF TypeOK, ScheduleOK, schedule
  <1>2. UNCHANGED slots => SlotsOK'
    BY DEF TypeOK, SlotsOK, slots
  <1>3. UNCHANGED flags => FlagsOK'
    BY DEF TypeOK, FlagsOK, flags
  <1>4. UNCHANGED lanes => LanesOK'
    BY DEF TypeOK, LanesOK, lanes
  <1>5. UNCHANGED host => HostOK'
    BY DEF TypeOK, HostOK, host
  <1>6. UNCHANGED block => BlockOK'
    BY DEF TypeOK, BlockOK
  <1>7. UNCHANGED <<cpu, act, left, owed>> => ControlOK'
    BY DEF TypeOK, ControlOK
  <1> QED
    BY <1>1, <1>2, <1>3, <1>4, <1>5, <1>6, <1>7

\* The block's record, where only its place, its wait or its wakeup changes.
LEMMA BlockMoves ==
    ASSUME BlockOK,
           \/ \E p \in BlockPlaces :
                 /\ p = "slot" => block.op \in {"spawn", "work"}
                 /\ block' = [block EXCEPT !.at = p]
           \/ \E p \in BlockPlaces \ {"slot"}, f \in Nat :
                 block' = [block EXCEPT !.at = p, !.fork = f]
           \/ \E p \in BlockPlaces \ {"slot"}, v \in {"none", "scope", "turn", "reply"} :
                 block' = [block EXCEPT !.at = p, !.wait = v]
           \/ \E p \in BlockPlaces \ {"slot"}, v \in {"none", "scope", "turn", "reply"} :
                 block' = [block EXCEPT !.at = p, !.wait = v, !.ready = FALSE]
           \/ block' = [block EXCEPT !.ready = TRUE]
    PROVE  BlockOK'
  <1>1. CASE \E p \in BlockPlaces :
               /\ p = "slot" => block.op \in {"spawn", "work"}
               /\ block' = [block EXCEPT !.at = p]
    BY <1>1 DEF BlockOK
  <1>2. CASE \E p \in BlockPlaces \ {"slot"}, f \in Nat :
               block' = [block EXCEPT !.at = p, !.fork = f]
    BY <1>2 DEF BlockOK
  <1>3. CASE \E p \in BlockPlaces \ {"slot"}, v \in {"none", "scope", "turn", "reply"} :
               block' = [block EXCEPT !.at = p, !.wait = v]
    <2>1. PICK p \in BlockPlaces \ {"slot"}, v \in {"none", "scope", "turn", "reply"} :
               block' = [block EXCEPT !.at = p, !.wait = v]
      BY <1>3
    <2>2. block' = [at |-> p, op |-> block.op, on |-> block.on, fork |-> block.fork,
                    wait |-> v, ready |-> block.ready]
      BY <2>1 DEF BlockOK
    <2>3. /\ block.op \in BlockOperations /\ block.on \in Nat
          /\ block.fork \in Nat /\ block.ready \in BOOLEAN
      BY DEF BlockOK
    <2>4. block' \in [at : BlockPlaces, op : BlockOperations, on : Nat, fork : Nat,
                      wait : {"none", "scope", "turn", "ext", "reply"}, ready : BOOLEAN]
      BY <2>2, <2>3
    <2>5. block'.op = block.op /\ block'.on = block.on /\ block'.at = p
      BY <2>2
    <2> QED
      BY <2>4, <2>5 DEF BlockOK
  <1>4. CASE \E p \in BlockPlaces \ {"slot"}, v \in {"none", "scope", "turn", "reply"} :
               block' = [block EXCEPT !.at = p, !.wait = v, !.ready = FALSE]
    <2>1. PICK p \in BlockPlaces \ {"slot"}, v \in {"none", "scope", "turn", "reply"} :
               block' = [block EXCEPT !.at = p, !.wait = v, !.ready = FALSE]
      BY <1>4
    <2>2. block' = [at |-> p, op |-> block.op, on |-> block.on, fork |-> block.fork,
                    wait |-> v, ready |-> FALSE]
      BY <2>1 DEF BlockOK
    <2>3. /\ block.op \in BlockOperations /\ block.on \in Nat
          /\ block.fork \in Nat /\ block.ready \in BOOLEAN
      BY DEF BlockOK
    <2>4. block' \in [at : BlockPlaces, op : BlockOperations, on : Nat, fork : Nat,
                      wait : {"none", "scope", "turn", "ext", "reply"}, ready : BOOLEAN]
      BY <2>2, <2>3
    <2>5. block'.op = block.op /\ block'.on = block.on /\ block'.at = p
      BY <2>2
    <2> QED
      BY <2>4, <2>5 DEF BlockOK
  <1>5. CASE block' = [block EXCEPT !.ready = TRUE]
    BY <1>5 DEF BlockOK
  <1> QED
    BY <1>1, <1>2, <1>3, <1>4, <1>5

\* The block's record at the start of an operation or back in the body.
LEMMA BlockStarts ==
    ASSUME NEW p \in BlockPlaces, NEW op \in BlockOperations, NEW n \in Nat,
           op = "spawn" => n \in Tasks, op = "work" => n \in Forks,
           p = "slot" => op \in {"spawn", "work"},
           \/ block' = Doing(p, op, n)
           \/ \E f \in Nat : block' = [Doing(p, op, n) EXCEPT !.fork = f]
           \/ block' = [Doing(p, op, n) EXCEPT !.wait = "ext"]
    PROVE  BlockOK'
  <1>1. CASE block' = Doing(p, op, n)
    BY <1>1 DEF BlockOK, Doing
  <1>2. CASE \E f \in Nat : block' = [Doing(p, op, n) EXCEPT !.fork = f]
    BY <1>2 DEF BlockOK, Doing
  <1>3. CASE block' = [Doing(p, op, n) EXCEPT !.wait = "ext"]
    BY <1>3 DEF BlockOK, Doing
  <1> QED
    BY <1>1, <1>2, <1>3

\* The block back in its body.
LEMMA BlockRunning ==
    ASSUME block' = Running
    PROVE  BlockOK'
  BY BlockStarts DEF Running, BlockPlaces, BlockOperations

\* fireWakers touches the wakers, the park and the block's wait.
LEMMA FireWakersType ==
    ASSUME TypeOK, FireWakers
    PROVE  wakers' \in SUBSET {"park", "arm"} /\ woken' \in BOOLEAN /\ BlockOK'
  <1>1. BlockOK'
    BY BlockMoves, SameGroups DEF FireWakers, TypeOK
  <1>2. wakers' \in SUBSET {"park", "arm"}
    BY DEF FireWakers
  <1>3. woken' \in BOOLEAN
    BY DEF FireWakers
  <1> QED
    BY <1>1, <1>2, <1>3

\* markRunnable queues a child and wakes whoever parked.
LEMMA MarkRunnableType ==
    ASSUME TypeOK, NEW t \in Tasks, MarkRunnable(t)
    PROVE  /\ queue' \in Seq(Tasks)
           /\ wakers' \in SUBSET {"park", "arm"} /\ woken' \in BOOLEAN /\ BlockOK'
  <1>1. CASE Ended(t) \/ Contains(queue, t)
    BY <1>1, SameGroups DEF MarkRunnable, TypeOK, ScheduleOK, HostOK
  <1>2. CASE ~(Ended(t) \/ Contains(queue, t))
    <2>1. FireWakers
      BY <1>2 DEF MarkRunnable
    <2>2. queue' = Append(queue, t) /\ queue \in Seq(Tasks)
      BY <1>2 DEF MarkRunnable, TypeOK, ScheduleOK
    <2>3. queue' \in Seq(Tasks)
      BY <2>2
    <2> QED
      BY <2>1, <2>3, FireWakersType
  <1> QED
    BY <1>1, <1>2

\* The parts of the state a settled worker task changes.
ForkParts ==
    /\ forks' \in Int /\ outstanding' \in Seq(Forks)
    /\ failed' \in BOOLEAN /\ cancelled' \in BOOLEAN
    /\ slotWaiters' \in Seq(Tasks) /\ owed' \in Seq(Callbacks)

\* The observer's part of a worker task's settlement keeps the types.
LEMMA ForkSettledType ==
    ASSUME TypeOK, NEW w \in Forks, NEW st, NEW after \in Seq(Callbacks),
           ForkSettled(w, st, after)
    PROVE  ForkParts
  <1>1. /\ list \in Seq(Tasks) /\ slotWaiters \in Seq(Tasks)
        /\ Without(outstanding, w) \in Seq(Forks)
    BY WithoutType DEF TypeOK, ScheduleOK, SlotsOK, LanesOK
  <1>2. /\ WakeSlots \in Seq(Callbacks)
        /\ Cancelling(list, Without(outstanding, w)) \in Seq(Callbacks)
    BY <1>1, CallAllTypes, CancellingType DEF WakeSlots
  <1>3. owed' \in Seq(Callbacks)
    BY <1>2 DEF ForkSettled
  <1>4. failed' \in BOOLEAN /\ cancelled' \in BOOLEAN
    BY DEF ForkSettled
  <1>5. forks' \in Int /\ outstanding' \in Seq(Forks) /\ slotWaiters' \in Seq(Tasks)
    BY <1>1 DEF ForkSettled, TypeOK, LanesOK
  <1> QED
    BY <1>3, <1>4, <1>5 DEF ForkParts

\* One field of one worker task's record changes.
LEMMA ForkField ==
    ASSUME NEW g \in [Forks -> ForkRecords], NEW w,
           NEW st \in {"new", "admitting", "refused", "queued"} \union Ends,
           NEW ln \in {"none", "queued", "running", "stopping", "dropped", "finished",
                       "routed"} \union Replies,
           NEW en \in Replies,
           NEW who \in Tasks \union {Block, NoOne}
    PROVE  /\ [g EXCEPT ![w].task = st] \in [Forks -> ForkRecords]
           /\ [g EXCEPT ![w].lane = ln] \in [Forks -> ForkRecords]
           /\ [g EXCEPT ![w].waiter = who] \in [Forks -> ForkRecords]
           /\ [g EXCEPT ![w].end = en] \in [Forks -> ForkRecords]
  <1>1. ASSUME NEW r \in ForkRecords
        PROVE  /\ [r EXCEPT !.task = st] \in ForkRecords /\ [r EXCEPT !.lane = ln] \in ForkRecords
               /\ [r EXCEPT !.waiter = who] \in ForkRecords /\ [r EXCEPT !.end = en] \in ForkRecords
    <2>1. [r EXCEPT !.task = st] \in ForkRecords
      BY DEF ForkRecords
    <2>2. [r EXCEPT !.lane = ln] \in ForkRecords
      BY DEF ForkRecords
    <2>3. [r EXCEPT !.waiter = who] \in ForkRecords
      BY DEF ForkRecords
    <2>4. [r EXCEPT !.end = en] \in ForkRecords
      BY DEF ForkRecords
    <2> QED
      BY <2>1, <2>2, <2>3, <2>4
  <1>2. CASE w \in Forks
    <2>1. g[w] \in ForkRecords
      BY <1>2
    <2> QED
      BY <1>1, <1>2, <2>1
  <1>3. CASE w \notin Forks
    BY <1>3
  <1> QED
    BY <1>2, <1>3

\* A worker task's record, where its state, its lane or its waiter changes.
LEMMA ForkChanges ==
    ASSUME fork \in [Forks -> ForkRecords], NEW w,
           NEW st \in {"new", "admitting", "refused", "queued"} \union Ends,
           NEW ln \in {"none", "queued", "running", "stopping", "dropped", "finished",
                       "routed"} \union Replies,
           NEW en \in Replies,
           NEW who \in Tasks \union {Block, NoOne}
    PROVE  /\ [fork EXCEPT ![w].task = st] \in [Forks -> ForkRecords]
           /\ [fork EXCEPT ![w].lane = ln] \in [Forks -> ForkRecords]
           /\ [fork EXCEPT ![w].waiter = who] \in [Forks -> ForkRecords]
           /\ [fork EXCEPT ![w].task = st, ![w].lane = ln] \in [Forks -> ForkRecords]
           /\ [fork EXCEPT ![w].lane = ln, ![w].waiter = who] \in [Forks -> ForkRecords]
           /\ [fork EXCEPT ![w].lane = ln, ![w].end = en] \in [Forks -> ForkRecords]
           /\ [fork EXCEPT ![w].task = st, ![w].lane = ln, ![w].waiter = who]
                 \in [Forks -> ForkRecords]
  <1>1. [fork EXCEPT ![w].task = st] \in [Forks -> ForkRecords]
    BY ForkField
  <1>2. [fork EXCEPT ![w].lane = ln] \in [Forks -> ForkRecords]
    BY ForkField
  <1>3. [fork EXCEPT ![w].waiter = who] \in [Forks -> ForkRecords]
    BY ForkField
  <1>4. [fork EXCEPT ![w].task = st, ![w].lane = ln] \in [Forks -> ForkRecords]
    <2> DEFINE g == [fork EXCEPT ![w].task = st]
    <2>1. g \in [Forks -> ForkRecords]
      BY <1>1
    <2>2. [fork EXCEPT ![w].task = st, ![w].lane = ln] = [g EXCEPT ![w].lane = ln]
      OBVIOUS
    <2> HIDE DEF g
    <2> QED
      BY <2>1, <2>2, ForkField
  <1>5. [fork EXCEPT ![w].lane = ln, ![w].waiter = who] \in [Forks -> ForkRecords]
    <2> DEFINE g == [fork EXCEPT ![w].lane = ln]
    <2>1. g \in [Forks -> ForkRecords]
      BY <1>2
    <2>2. [fork EXCEPT ![w].lane = ln, ![w].waiter = who] = [g EXCEPT ![w].waiter = who]
      OBVIOUS
    <2> HIDE DEF g
    <2> QED
      BY <2>1, <2>2, ForkField
  <1>6. [fork EXCEPT ![w].lane = ln, ![w].end = en] \in [Forks -> ForkRecords]
    <2> DEFINE g == [fork EXCEPT ![w].lane = ln]
    <2>1. g \in [Forks -> ForkRecords]
      BY <1>2
    <2>2. [fork EXCEPT ![w].lane = ln, ![w].end = en] = [g EXCEPT ![w].end = en]
      OBVIOUS
    <2> HIDE DEF g
    <2> QED
      BY <2>1, <2>2, ForkField
  <1>7. [fork EXCEPT ![w].task = st, ![w].lane = ln, ![w].waiter = who] \in [Forks -> ForkRecords]
    <2> DEFINE g == [fork EXCEPT ![w].task = st, ![w].lane = ln]
    <2>1. g \in [Forks -> ForkRecords]
      BY <1>4
    <2>2. [fork EXCEPT ![w].task = st, ![w].lane = ln, ![w].waiter = who] = [g EXCEPT ![w].waiter = who]
      OBVIOUS
    <2> HIDE DEF g
    <2> QED
      BY <2>1, <2>2, ForkField
  <1> QED
    BY <1>1, <1>2, <1>3, <1>4, <1>5, <1>6, <1>7

\* Routing a reply keeps the types, the waiter's resume included.
LEMMA RouteType ==
    ASSUME TypeOK, NEW w \in Forks, owed # <<>>, Route(w)
    PROVE  ForkParts /\ fork' \in [Forks -> ForkRecords]
  <1> DEFINE waiting == IF fork[w].waiter = NoOne THEN <<>>
                        ELSE <<Call("resume", fork[w].waiter)>>
             after == waiting \o Tail(owed)
  <1>1. /\ fork \in [Forks -> ForkRecords] /\ fork[w].lane \in Replies
        /\ fork[w].waiter \in Tasks \union {Block, NoOne}
    BY DEF TypeOK, LanesOK, ForkRecords, Route
  <1>2. waiting \in Seq(Callbacks)
    BY <1>1, CallTypes
  <1>3. Tail(owed) \in Seq(Callbacks)
    BY HeadCallback DEF TypeOK, ControlOK
  <1>4. after \in Seq(Callbacks)
    BY <1>2, <1>3
  <1>5. CASE fork[w].task = "queued"
    <2>1. ForkSettled(w, fork[w].lane, after)
      BY <1>5 DEF Route
    <2>2. fork' = [fork EXCEPT ![w].task = fork[w].lane, ![w].lane = "routed", ![w].waiter = NoOne]
      BY <1>5 DEF Route
    <2> HIDE DEF after
    <2>3. fork' \in [Forks -> ForkRecords]
      BY <1>1, <2>2, ForkChanges DEF Replies
    <2> QED
      BY <1>4, <2>1, <2>3, ForkSettledType
  <1>6. CASE fork[w].task # "queued"
    <2>1. /\ fork' = [fork EXCEPT ![w].lane = "routed", ![w].waiter = NoOne]
          /\ owed' = after
          /\ UNCHANGED <<forks, outstanding, failed, cancelled, slotWaiters>>
      BY <1>6 DEF Route
    <2> HIDE DEF after
    <2>2. fork' \in [Forks -> ForkRecords]
      BY <1>1, <2>1, ForkChanges
    <2>3. ForkParts
      BY <1>4, <2>1 DEF ForkParts, TypeOK, LanesOK, FlagsOK, SlotsOK
    <2> QED
      BY <2>2, <2>3
  <1> QED
    BY <1>5, <1>6

-----------------------------------------------------------------------------
(* Callbacks *)

\* A resume, of the block or of a child, keeps the types.
LEMMA RunResumeType ==
    ASSUME TypeOK, RunResume
    PROVE  TypeOK'
  <1>1. owed \in Seq(Callbacks) /\ Head(owed) \in Callbacks /\ owed' \in Seq(Callbacks)
    BY HeadCallback DEF TypeOK, ControlOK, RunResume
  <1>2. Head(owed).who \in Tasks \union {Block}
    BY <1>1, CallbackShape DEF RunResume
  <1>3. SlotsOK' /\ FlagsOK' /\ LanesOK'
    BY SameGroups DEF RunResume
  <1>4. CASE Head(owed).who = Block
    <2>1. /\ block' = [block EXCEPT !.ready = TRUE] /\ woken' = TRUE
          /\ UNCHANGED <<queue, act, wakers>>
      BY <1>4 DEF RunResume
    <2>2. BlockOK'
      BY <2>1, BlockMoves DEF TypeOK
    <2>3. ScheduleOK'
      BY <2>1 DEF TypeOK, ScheduleOK, RunResume
    <2>4. HostOK'
      BY <2>1 DEF TypeOK, HostOK, RunResume
    <2>5. ControlOK'
      BY <1>1, <2>1 DEF TypeOK, ControlOK, RunResume
    <2> QED
      BY <1>3, <2>2, <2>3, <2>4, <2>5 DEF TypeOK
  <1>5. CASE Head(owed).who # Block
    <2> DEFINE t == Head(owed).who
    <2>1. /\ t \in Tasks /\ act' = [act EXCEPT ![t].ready = TRUE] /\ MarkRunnable(t)
      BY <1>2, <1>5 DEF RunResume
    <2> HIDE DEF t
    <2>2. /\ queue' \in Seq(Tasks)
          /\ wakers' \in SUBSET {"park", "arm"} /\ woken' \in BOOLEAN /\ BlockOK'
      BY <2>1, MarkRunnableType
    <2>3. ScheduleOK'
      BY <2>2 DEF TypeOK, ScheduleOK, RunResume
    <2>4. HostOK'
      BY <2>2 DEF TypeOK, HostOK, RunResume
    <2>5. ControlOK'
      BY <1>1, <2>1 DEF TypeOK, ControlOK, RunResume
    <2> QED
      BY <1>3, <2>2, <2>3, <2>4, <2>5 DEF TypeOK
  <1> QED
    BY <1>4, <1>5

\* A request and spawnRaw's mark keep the types.
LEMMA RunRequestType ==
    ASSUME TypeOK, RunRequest \/ RunMark
    PROVE  TypeOK'
  <1> DEFINE t == Head(owed).who
  <1>1. owed \in Seq(Callbacks) /\ Head(owed) \in Callbacks /\ owed' \in Seq(Callbacks)
    BY HeadCallback DEF TypeOK, ControlOK, RunRequest, RunMark
  <1>2. t \in Tasks
    BY <1>1, CallbackShape DEF RunRequest, RunMark
  <1>3. SlotsOK' /\ FlagsOK' /\ LanesOK'
    BY SameGroups DEF RunRequest, RunMark
  <1>4. MarkRunnable(t)
    BY DEF RunRequest, RunMark
  <1>5. requested' \in SUBSET Tasks
    BY <1>2 DEF RunRequest, RunMark, TypeOK, ScheduleOK
  <1> HIDE DEF t
  <1>6. /\ queue' \in Seq(Tasks)
        /\ wakers' \in SUBSET {"park", "arm"} /\ woken' \in BOOLEAN /\ BlockOK'
    BY <1>2, <1>4, MarkRunnableType
  <1>7. ScheduleOK'
    BY <1>5, <1>6 DEF TypeOK, ScheduleOK, RunRequest, RunMark
  <1>8. HostOK'
    BY <1>6 DEF TypeOK, HostOK, RunRequest, RunMark
  <1>9. ControlOK'
    BY <1>1 DEF TypeOK, ControlOK, RunRequest, RunMark
  <1> QED
    BY <1>3, <1>6, <1>7, <1>8, <1>9 DEF TypeOK

\* A step that changes only what a settled worker task changes.
LEMMA ForkPartsType ==
    ASSUME TypeOK, ForkParts, fork' \in [Forks -> ForkRecords],
           UNCHANGED <<schedule, lending, lent, waiters, deliberate, settling, closed, host,
                       cpu, act, block, left>>
    PROVE  TypeOK'
  <1>1. ScheduleOK' /\ HostOK' /\ BlockOK'
    BY SameGroups
  <1>2. SlotsOK'
    BY DEF TypeOK, SlotsOK, ForkParts
  <1>3. FlagsOK'
    BY DEF TypeOK, FlagsOK, ForkParts
  <1>4. LanesOK'
    BY DEF LanesOK, ForkParts
  <1>5. ControlOK'
    BY DEF TypeOK, ControlOK, ForkParts
  <1> QED
    BY <1>1, <1>2, <1>3, <1>4, <1>5 DEF TypeOK

\* Routing on demand keeps the types.
LEMMA RunRouteType ==
    ASSUME TypeOK, RunRoute
    PROVE  TypeOK'
  <1> DEFINE w == Head(owed).who
  <1>1. /\ owed \in Seq(Callbacks) /\ owed # <<>>
        /\ Head(owed) \in Callbacks /\ Tail(owed) \in Seq(Callbacks)
    BY HeadCallback DEF TypeOK, ControlOK, RunRoute
  <1>2. w \in Forks
    BY <1>1, CallbackShape DEF RunRoute
  <1>3. UNCHANGED <<schedule, lending, lent, waiters, deliberate, settling, closed, host,
                    cpu, act, block, left>>
    BY DEF RunRoute
  <1>4. \/ Route(w)
        \/ owed' = Tail(owed) /\ UNCHANGED <<lanes, failed, cancelled, slotWaiters>>
    BY DEF RunRoute
  <1> HIDE DEF w
  <1>5. CASE Route(w)
    BY <1>1, <1>2, <1>3, <1>5, RouteType, ForkPartsType
  <1>6. CASE owed' = Tail(owed) /\ UNCHANGED <<lanes, failed, cancelled, slotWaiters>>
    <2>1. ForkParts /\ fork' \in [Forks -> ForkRecords]
      BY <1>1, <1>6 DEF ForkParts, TypeOK, LanesOK, FlagsOK, SlotsOK, lanes
    <2> QED
      BY <1>3, <2>1, ForkPartsType
  <1> QED
    BY <1>4, <1>5, <1>6

\* Cancelling a worker task keeps the types, in whichever state it is met.
LEMMA RunCancelType ==
    ASSUME TypeOK, RunCancel
    PROVE  TypeOK'
  <1> DEFINE w == Head(owed).who
  <1>1. /\ owed \in Seq(Callbacks) /\ owed # <<>>
        /\ Head(owed) \in Callbacks /\ Tail(owed) \in Seq(Callbacks)
    BY HeadCallback DEF TypeOK, ControlOK, RunCancel
  <1>2. w \in Forks
    BY <1>1, CallbackShape DEF RunCancel
  <1>3. UNCHANGED <<schedule, lending, lent, waiters, deliberate, settling, closed, host,
                    cpu, act, block, left>>
    BY DEF RunCancel
  <1>4. \/ Route(w)
        \/ /\ fork' = [fork EXCEPT ![w].task = "cancelled", ![w].lane = "dropped"]
           /\ ForkSettled(w, "cancelled", Tail(owed))
        \/ /\ fork' = [fork EXCEPT ![w].lane = "stopping"]
           /\ owed' = Tail(owed)
           /\ UNCHANGED <<forks, outstanding, failed, cancelled, slotWaiters>>
        \/ owed' = Tail(owed) /\ UNCHANGED <<lanes, failed, cancelled, slotWaiters>>
    BY DEF RunCancel
  <1> HIDE DEF w
  <1>5. fork \in [Forks -> ForkRecords]
    BY DEF TypeOK, LanesOK
  <1>6. CASE Route(w)
    BY <1>1, <1>2, <1>3, <1>6, RouteType, ForkPartsType
  <1>7. CASE /\ fork' = [fork EXCEPT ![w].task = "cancelled", ![w].lane = "dropped"]
             /\ ForkSettled(w, "cancelled", Tail(owed))
    <2>1. fork' \in [Forks -> ForkRecords]
      BY <1>5, <1>7, ForkChanges DEF Ends, Replies
    <2> QED
      BY <1>1, <1>2, <1>3, <1>7, <2>1, ForkSettledType, ForkPartsType
  <1>8. CASE /\ fork' = [fork EXCEPT ![w].lane = "stopping"]
             /\ owed' = Tail(owed)
             /\ UNCHANGED <<forks, outstanding, failed, cancelled, slotWaiters>>
    <2>1. fork' \in [Forks -> ForkRecords]
      BY <1>5, <1>8, ForkChanges DEF Ends, Replies
    <2>2. ForkParts
      BY <1>1, <1>8 DEF ForkParts, TypeOK, LanesOK, FlagsOK, SlotsOK
    <2> QED
      BY <1>3, <2>1, <2>2, ForkPartsType
  <1>9. CASE owed' = Tail(owed) /\ UNCHANGED <<lanes, failed, cancelled, slotWaiters>>
    <2>1. ForkParts /\ fork' \in [Forks -> ForkRecords]
      BY <1>1, <1>9 DEF ForkParts, TypeOK, LanesOK, FlagsOK, SlotsOK, lanes
    <2> QED
      BY <1>3, <2>1, ForkPartsType
  <1> QED
    BY <1>4, <1>6, <1>7, <1>8, <1>9

-----------------------------------------------------------------------------
(* Settling and raising *)

\* Every way to ask the whole family to stop.
LEMMA FamilyCallsType ==
    ASSUME TypeOK
    PROVE  Cancelling(list, outstanding) \in Seq(Callbacks)
  BY CancellingType DEF TypeOK, ScheduleOK, LanesOK

\* deadlinePassed sets the flag and owes the family's requests.
LEMMA DeadlinePassedType ==
    ASSUME TypeOK, DeadlinePassed
    PROVE  cancelled' \in BOOLEAN /\ owed' \in Seq(Callbacks)
  <1>1. CASE Overdue
    BY <1>1, FamilyCallsType DEF DeadlinePassed
  <1>2. CASE ~Overdue
    BY <1>2 DEF DeadlinePassed, TypeOK, FlagsOK, ControlOK
  <1> QED
    BY <1>1, <1>2

\* settleChild keeps the types of the queue, the list and the slots.
LEMMA SettleChildType ==
    ASSUME TypeOK, NEW t \in Tasks, NEW st \in Ends, NEW after \in Seq(Callbacks),
           SettleChild(t, st, after)
    PROVE  /\ status' \in [Tasks -> Statuses]
           /\ queue' \in Seq(Tasks) /\ list' \in Seq(Tasks)
           /\ SlotsOK' /\ owed' \in Seq(Callbacks)
  <1>1. /\ queue \in Seq(Tasks) /\ list \in Seq(Tasks) /\ status \in [Tasks -> Statuses]
        /\ lending \in SUBSET Tasks /\ lent \in Int
        /\ slotWaiters \in Seq(Tasks) /\ waiters \in [Tasks -> Seq(Tasks)]
    BY DEF TypeOK, ScheduleOK, SlotsOK
  <1>2. status' \in [Tasks -> Statuses]
    BY <1>1 DEF SettleChild, Statuses
  <1>3. queue' \in Seq(Tasks) /\ list' \in Seq(Tasks)
    BY <1>1, WithoutType DEF SettleChild
  <1>4. SlotsOK'
    BY <1>1 DEF SettleChild, SlotsOK
  <1>5. waiters[t] \in Seq(Tasks)
    BY <1>1
  <1>6. CallAll("resume", waiters[t]) \in Seq(Callbacks) /\ WakeSlots \in Seq(Callbacks)
    BY <1>1, <1>5, CallAllTypes DEF WakeSlots
  <1>7. owed' \in Seq(Callbacks)
    BY <1>6 DEF SettleChild
  <1> QED
    BY <1>2, <1>3, <1>4, <1>7

ActRecords == [at : Places, on : Nat, ready : BOOLEAN]

\* A child's place, where only it changes, or its whole record.
LEMMA ActChanges ==
    ASSUME act \in [Tasks -> ActRecords],
           NEW t, NEW p \in Places, NEW n \in Nat, NEW r \in BOOLEAN
    PROVE  /\ [act EXCEPT ![t].at = p] \in [Tasks -> ActRecords]
           /\ [act EXCEPT ![t].ready = r] \in [Tasks -> ActRecords]
           /\ [act EXCEPT ![t].ready = r, ![t].at = p] \in [Tasks -> ActRecords]
           /\ [act EXCEPT ![t] = [at |-> p, on |-> n, ready |-> r]] \in [Tasks -> ActRecords]
  <1> DEFINE g == [act EXCEPT ![t].ready = r]
  <1>1. g \in [Tasks -> ActRecords]
    BY DEF ActRecords
  <1>2. [act EXCEPT ![t].ready = r, ![t].at = p] = [g EXCEPT ![t].at = p]
    OBVIOUS
  <1> HIDE DEF g
  <1>3. [g EXCEPT ![t].at = p] \in [Tasks -> ActRecords]
    BY <1>1 DEF ActRecords
  <1>4. [act EXCEPT ![t].at = p] \in [Tasks -> ActRecords]
    BY DEF ActRecords
  <1>5. [act EXCEPT ![t] = [at |-> p, on |-> n, ready |-> r]] \in [Tasks -> ActRecords]
    BY DEF ActRecords
  <1> QED
    BY <1>1, <1>2, <1>3, <1>4, <1>5 DEF g

\* The end of a child keeps the types.
LEMMA FinishType ==
    ASSUME TypeOK, NEW t \in Tasks, NEW st \in Ends, Finish(t, st),
           body' \in [Tasks -> {"none", "held", "called", "released"}]
    PROVE  TypeOK'
  <1> DEFINE after == IF st = "failed" THEN Cancelling(Without(list, t), outstanding) ELSE <<>>
  <1>1. Without(list, t) \in Seq(Tasks) /\ outstanding \in Seq(Forks)
    BY WithoutType DEF TypeOK, ScheduleOK, LanesOK
  <1>2. Cancelling(Without(list, t), outstanding) \in Seq(Callbacks)
    BY <1>1, CancellingType
  <1>3. after \in Seq(Callbacks)
    BY <1>2
  <1>4. SettleChild(t, st, after)
    BY DEF Finish
  <1> HIDE DEF after
  <1>5. /\ status' \in [Tasks -> Statuses]
        /\ queue' \in Seq(Tasks) /\ list' \in Seq(Tasks)
        /\ SlotsOK' /\ owed' \in Seq(Callbacks)
    BY <1>3, <1>4, SettleChildType
  <1>6. ScheduleOK'
    BY <1>5 DEF Finish, TypeOK, ScheduleOK
  <1>7. FlagsOK'
    BY DEF Finish, TypeOK, FlagsOK
  <1>8. LanesOK' /\ HostOK' /\ BlockOK'
    BY SameGroups DEF Finish
  <1>9. act' = [act EXCEPT ![t].at = "over"] /\ act \in [Tasks -> ActRecords]
    BY DEF Finish, TypeOK, ControlOK, ActRecords
  <1>10. act' \in [Tasks -> ActRecords]
    BY <1>9, ActChanges DEF Places
  <1>11. ControlOK'
    BY <1>5, <1>10 DEF Finish, TypeOK, ControlOK, ActRecords
  <1> QED
    BY <1>5, <1>6, <1>7, <1>8, <1>11 DEF TypeOK

-----------------------------------------------------------------------------
(* The steps of a child *)

\* A body's budget stays a natural number.
LEMMA DoesType ==
    ASSUME TypeOK, NEW t \in Tasks, NEW op, Does(t, op)
    PROVE  left' \in [Tasks \union {Block} -> Nat]
  BY DEF TypeOK, ControlOK, Does

\* A step that moves a child and leaves the scope alone.
LEMMA MoveType ==
    ASSUME TypeOK,
           act' \in [Tasks -> ActRecords], cpu' \in Tasks \union {Block, Host},
           left' \in [Tasks \union {Block} -> Nat], owed' \in Seq(Callbacks),
           UNCHANGED <<schedule, slots, flags, lanes, host, block>>
    PROVE  TypeOK'
  <1>1. ScheduleOK' /\ SlotsOK' /\ FlagsOK' /\ LanesOK' /\ HostOK' /\ BlockOK'
    BY SameGroups
  <1>2. ControlOK'
    BY DEF ControlOK, ActRecords
  <1> QED
    BY <1>1, <1>2 DEF TypeOK

\* The same, where a cancellation may have been raised in it.
LEMMA ToldType ==
    ASSUME TypeOK,
           act' \in [Tasks -> ActRecords], cpu' \in Tasks \union {Block, Host},
           left' \in [Tasks \union {Block} -> Nat], owed' \in Seq(Callbacks),
           told' \in SUBSET Tasks, cancelled' \in BOOLEAN,
           UNCHANGED <<queue, list, status, requested, body, by, slots, failed, deliberate,
                       settling, closed, lanes, host, block>>
    PROVE  TypeOK'
  <1>1. SlotsOK' /\ LanesOK' /\ HostOK' /\ BlockOK'
    BY SameGroups
  <1>2. ScheduleOK'
    BY DEF TypeOK, ScheduleOK
  <1>3. FlagsOK'
    BY DEF TypeOK, FlagsOK
  <1>4. ControlOK'
    BY DEF ControlOK, ActRecords
  <1> QED
    BY <1>1, <1>2, <1>3, <1>4 DEF TypeOK

\* What the lemmas above ask for, from the type invariant.
LEMMA ControlTypes ==
    ASSUME TypeOK
    PROVE  /\ act \in [Tasks -> ActRecords] /\ cpu \in Tasks \union {Block, Host}
           /\ left \in [Tasks \union {Block} -> Nat] /\ owed \in Seq(Callbacks)
           /\ told \in SUBSET Tasks /\ cancelled \in BOOLEAN
           /\ body \in [Tasks -> {"none", "held", "called", "released"}]
           /\ fork \in [Forks -> ForkRecords]
  BY DEF TypeOK, ControlOK, ScheduleOK, FlagsOK, LanesOK, ActRecords

\* What is raised in a child leaves it at a known place.
LEMMA RaisesType ==
    ASSUME TypeOK, NEW t \in Tasks, NEW p \in Places, Raises(t, p)
    PROVE  act' \in [Tasks -> ActRecords]
  BY ControlTypes, ActChanges DEF Raises, Parked

\* What the scope raises is one of the two raised places.
LEMMA RaisedType == Raised \in Places
  BY DEF Raised, Places

\* The first resume keeps the types, the body called or dropped.
LEMMA EnterType ==
    ASSUME TypeOK, NEW t \in Tasks, Enter(t)
    PROVE  TypeOK'
  <1>1. body' \in [Tasks -> {"none", "held", "called", "released"}]
    BY ControlTypes DEF Enter
  <1>2. CASE t \in requested
    <2>1. Finish(t, "cancelled")
      BY <1>2 DEF Enter
    <2> QED
      BY <1>1, <2>1, FinishType DEF Ends
  <1>3. CASE t \notin requested
    <2>1. act' = [act EXCEPT ![t].at = "body"]
      BY <1>3 DEF Enter
    <2>2. act' \in [Tasks -> ActRecords]
      BY <2>1, ControlTypes, ActChanges DEF Places
    <2>3. SlotsOK' /\ FlagsOK' /\ LanesOK' /\ HostOK' /\ BlockOK'
      BY <1>3, SameGroups DEF Enter
    <2>4. ScheduleOK'
      BY <1>1, <1>3 DEF Enter, TypeOK, ScheduleOK
    <2>5. ControlOK'
      BY <1>3, <2>2 DEF Enter, TypeOK, ControlOK, ActRecords
    <2> QED
      BY <2>3, <2>4, <2>5 DEF TypeOK
  <1> QED
    BY <1>2, <1>3

\* Giving up a wait keeps the types of every waiter list it is taken from.
LEMMA WakeCancelledType ==
    ASSUME TypeOK, NEW t \in Tasks, WakeCancelled(t)
    PROVE  TypeOK'
  <1>1. waiters' \in [Tasks -> Seq(Tasks)]
    <2>1. \A u \in Tasks : Without(waiters[u], t) \in Seq(Tasks)
      BY WithoutType DEF TypeOK, SlotsOK
    <2> QED
      BY <2>1 DEF WakeCancelled
  <1>2. slotWaiters' \in Seq(Tasks)
    BY WithoutType DEF WakeCancelled, TypeOK, SlotsOK
  <1>3. fork' \in [Forks -> ForkRecords]
    <2>1. ASSUME NEW r \in ForkRecords, NEW who \in Tasks \union {Block, NoOne}
          PROVE  [r EXCEPT !.waiter = who] \in ForkRecords
      BY <2>1 DEF ForkRecords
    <2>2. ASSUME NEW w \in Forks
          PROVE  [fork[w] EXCEPT !.waiter = IF @ = t THEN NoOne ELSE @] \in ForkRecords
      <3>1. fork[w] \in ForkRecords
        BY ControlTypes
      <3>2. fork[w].waiter \in Tasks \union {Block, NoOne}
        BY <3>1 DEF ForkRecords
      <3> QED
        BY <2>1, <3>1, <3>2
    <2> QED
      BY <2>2 DEF WakeCancelled
  <1>4. act' \in [Tasks -> ActRecords]
    BY ControlTypes, ActChanges DEF WakeCancelled, Places
  <1>5. FlagsOK' /\ HostOK' /\ BlockOK'
    BY SameGroups DEF WakeCancelled
  <1>6. ScheduleOK'
    BY DEF WakeCancelled, TypeOK, ScheduleOK
  <1>7. SlotsOK'
    BY <1>1, <1>2 DEF WakeCancelled, TypeOK, SlotsOK
  <1>8. LanesOK'
    BY <1>3 DEF WakeCancelled, TypeOK, LanesOK
  <1>9. ControlOK'
    BY <1>4 DEF WakeCancelled, TypeOK, ControlOK, ActRecords
  <1> QED
    BY <1>5, <1>6, <1>7, <1>8, <1>9 DEF TypeOK

\* The wakeups of a child and a catch keep the types.
LEMMA WakeType ==
    ASSUME TypeOK, NEW t \in Tasks, WakeEarly(t) \/ WakeReady(t) \/ WakeDrained(t) \/ Catch(t)
    PROVE  TypeOK'
  <1>1. CASE WakeEarly(t)
    BY <1>1, ControlTypes, MoveType DEF WakeEarly
  <1>2. CASE WakeReady(t)
    <2>1. act[t].at \in {"ext", "await", "fork"} /\ act \in [Tasks -> ActRecords]
      BY <1>2, ControlTypes DEF WakeReady
    <2>2. \E p \in Places : act' = [act EXCEPT ![t].ready = FALSE, ![t].at = p]
      BY <1>2, <2>1 DEF WakeReady, ActRecords, Places
    <2>3. act' \in [Tasks -> ActRecords]
      <3> PICK p \in Places : act' = [act EXCEPT ![t].ready = FALSE, ![t].at = p]
        BY <2>2
      <3> QED
        BY <2>1, ActChanges
    <2> QED
      BY <1>2, <2>3, ControlTypes, MoveType DEF WakeReady
  <1>3. CASE WakeDrained(t)
    <2>0. \E p \in Places : act' = [act EXCEPT ![t] = [at |-> p, on |-> 0, ready |-> FALSE]]
      <3>1. CASE t \in requested /\ act[t].on = 0
        BY <1>3, <3>1 DEF WakeDrained, Places
      <3>2. CASE ~(t \in requested /\ act[t].on = 0)
        BY <1>3, <3>2 DEF WakeDrained, Places
      <3> QED
        BY <3>1, <3>2
    <2>1. act' \in [Tasks -> ActRecords]
      <3> PICK p \in Places : act' = [act EXCEPT ![t] = [at |-> p, on |-> 0, ready |-> FALSE]]
        BY <2>0
      <3> QED
        BY ControlTypes, ActChanges
    <2>2. told' \in SUBSET Tasks
      BY <1>3, ControlTypes DEF WakeDrained
    <2> QED
      BY <1>3, <2>1, <2>2, ControlTypes, ToldType DEF WakeDrained, flags
  <1>4. CASE Catch(t)
    <2>1. act' \in [Tasks -> ActRecords]
      BY <1>4, ControlTypes, ActChanges DEF Catch, Places
    <2> QED
      BY <1>4, <2>1, ControlTypes, MoveType DEF Catch
  <1> QED
    BY <1>1, <1>2, <1>3, <1>4

\* lendSlot's loop keeps the types, parking again or not.
LEMMA WakeLenderType ==
    ASSUME TypeOK, NEW t \in Tasks, WakeLender(t)
    PROVE  TypeOK'
  <1>1. ScheduleOK' /\ FlagsOK' /\ LanesOK' /\ HostOK' /\ BlockOK'
    BY SameGroups DEF WakeLender
  <1>2. CASE Occupied >= Limit /\ ~failed
    <2>1. /\ slotWaiters' = Append(slotWaiters, t) /\ slotWaiters \in Seq(Tasks)
          /\ act' = [act EXCEPT ![t].ready = FALSE] /\ cpu' = Block
      BY <1>2 DEF WakeLender, TypeOK, SlotsOK
    <2>2. slotWaiters' \in Seq(Tasks)
      BY <2>1
    <2>3. SlotsOK'
      BY <1>2, <2>2 DEF WakeLender, TypeOK, SlotsOK
    <2>4. act' \in [Tasks -> ActRecords]
      BY <2>1, ControlTypes, ActChanges DEF Places
    <2>5. ControlOK'
      BY <2>1, <2>4 DEF WakeLender, TypeOK, ControlOK, ActRecords
    <2> QED
      BY <1>1, <2>3, <2>5 DEF TypeOK
  <1>3. CASE ~(Occupied >= Limit /\ ~failed)
    <2>1. SlotsOK'
      BY <1>3 DEF WakeLender, TypeOK, SlotsOK
    <2>2. act' = [act EXCEPT ![t] = [at |-> "body", on |-> 0, ready |-> FALSE]] /\ cpu' = cpu
      BY <1>3 DEF WakeLender
    <2>3. act' \in [Tasks -> ActRecords]
      BY <2>2, ControlTypes, ActChanges DEF Places
    <2>4. ControlOK'
      BY <2>2, <2>3 DEF WakeLender, TypeOK, ControlOK, ActRecords
    <2> QED
      BY <1>1, <2>1, <2>4 DEF TypeOK
  <1> QED
    BY <1>2, <1>3

\* Every way for a body to end keeps the types.
LEMMA EndsType ==
    ASSUME TypeOK, NEW t \in Tasks, BodyReturns(t) \/ BodyFails(t) \/ Unwinds(t)
    PROVE  TypeOK'
  <1>1. body' \in [Tasks -> {"none", "held", "called", "released"}]
    BY ControlTypes DEF BodyReturns, BodyFails, Unwinds
  <1>2. \E st \in Ends : Finish(t, st)
    BY DEF BodyReturns, BodyFails, Unwinds, Ends
  <1> QED
    BY <1>1, <1>2, FinishType

-----------------------------------------------------------------------------
(* What a body does *)

\* The child parks somewhere.
LEMMA ParkedType ==
    ASSUME TypeOK, NEW t \in Tasks, NEW p \in Places, NEW n \in Nat
    PROVE  [act EXCEPT ![t] = Parked(p, n)] \in [Tasks -> ActRecords]
  BY ControlTypes, ActChanges DEF Parked

\* An external wait and the drain of a nested scope keep the types.
LEMMA ParkType ==
    ASSUME TypeOK, NEW t \in Tasks,
           ParkExternally(t) \/ \E d \in Deliberate : DrainNested(t, d)
    PROVE  TypeOK'
  <1>1. left' \in [Tasks \union {Block} -> Nat]
    BY DoesType DEF ParkExternally, DrainNested
  <1>2. \E p \in Places, n \in Nat : act' = [act EXCEPT ![t] = Parked(p, n)]
    <2>1. CASE ParkExternally(t)
      BY <2>1 DEF ParkExternally, Places, Waits
    <2>2. CASE \E d \in Deliberate : DrainNested(t, d)
      BY <2>2 DEF DrainNested, Places, Waits
    <2> QED
      BY <2>1, <2>2
  <1>3. act' \in [Tasks -> ActRecords]
    BY <1>2, ParkedType
  <1>4. cpu' = Block /\ UNCHANGED <<schedule, slots, flags, lanes, host, block, owed>>
    BY DEF ParkExternally, DrainNested
  <1> QED
    BY <1>1, <1>3, <1>4, ControlTypes, MoveType

\* checkpoint keeps the types.
LEMMA CheckpointType ==
    ASSUME TypeOK, NEW t \in Tasks, Checkpoint(t)
    PROVE  TypeOK'
  <1>1. left' \in [Tasks \union {Block} -> Nat]
    BY DoesType DEF Checkpoint
  <1>2. cancelled' \in BOOLEAN /\ owed' \in Seq(Callbacks)
    BY DeadlinePassedType DEF Checkpoint
  <1>3. act' \in [Tasks -> ActRecords] /\ told' \in SUBSET Tasks
    <2>1. "raisedCancel" \in Places
      BY DEF Places
    <2>2. CASE t \in requested \/ cancelled'
      BY <2>1, <2>2, RaisesType, ControlTypes DEF Checkpoint
    <2>3. CASE ~(t \in requested \/ cancelled')
      BY <2>3, ControlTypes DEF Checkpoint
    <2> QED
      BY <2>2, <2>3
  <1>4. /\ cpu' = cpu
        /\ UNCHANGED <<queue, list, status, requested, body, by, slots, failed, deliberate,
                       settling, closed, lanes, host, block>>
    BY DEF Checkpoint
  <1> QED
    BY <1>1, <1>2, <1>3, <1>4, ControlTypes, ToldType

\* spawnRaw past admission keeps the types.
LEMMA RegisterType ==
    ASSUME TypeOK, NEW u \in Tasks, NEW parent \in Tasks \union {Block}, Register(u, parent)
    PROVE  /\ list' \in Seq(Tasks) /\ status' \in [Tasks -> Statuses]
           /\ body' \in [Tasks -> {"none", "held", "called", "released"}]
           /\ by' \in [Tasks -> Tasks \union {Block, NoOne}]
           /\ requested' \in SUBSET Tasks /\ owed' \in Seq(Callbacks)
  <1>1. list' = Append(list, u) /\ list \in Seq(Tasks)
    BY DEF Register, TypeOK, ScheduleOK
  <1>2. list' \in Seq(Tasks)
    BY <1>1
  <1>3. status' \in [Tasks -> Statuses]
    BY DEF Register, TypeOK, ScheduleOK, Statuses
  <1>4. body' \in [Tasks -> {"none", "held", "called", "released"}]
    BY DEF Register, TypeOK, ScheduleOK
  <1>5. by' \in [Tasks -> Tasks \union {Block, NoOne}]
    BY DEF Register, TypeOK, ScheduleOK
  <1>6. requested' \in SUBSET Tasks
    BY DEF Register, TypeOK, ScheduleOK
  <1>7. owed' \in Seq(Callbacks)
    BY CallTypes DEF Register
  <1> QED
    BY <1>2, <1>3, <1>4, <1>5, <1>6, <1>7

\* spawnRaw refused keeps the types.
LEMMA RefuseBodyType ==
    ASSUME TypeOK, NEW u \in Tasks, NEW parent \in Tasks \union {Block}, RefuseBody(u, parent)
    PROVE  /\ list' \in Seq(Tasks) /\ status' \in [Tasks -> Statuses]
           /\ body' \in [Tasks -> {"none", "held", "called", "released"}]
           /\ by' \in [Tasks -> Tasks \union {Block, NoOne}]
           /\ requested' \in SUBSET Tasks
  BY DEF RefuseBody, TypeOK, ScheduleOK, Statuses

\* lendSlot's entry keeps the types.
LEMMA LendType ==
    ASSUME TypeOK, NEW t \in Tasks, NEW full, Lend(t, full), waiters' = waiters
    PROVE  SlotsOK' /\ act' \in [Tasks -> ActRecords] /\ cpu' \in Tasks \union {Block, Host}
  <1>1. CASE full
    <2>1. /\ slotWaiters' = Append(slotWaiters, t) /\ slotWaiters \in Seq(Tasks)
          /\ act' = [act EXCEPT ![t] = Parked("lend", 0)] /\ cpu' = Block
      BY <1>1 DEF Lend, TypeOK, SlotsOK
    <2>2. slotWaiters' \in Seq(Tasks)
      BY <2>1
    <2>3. SlotsOK'
      BY <1>1, <2>2 DEF Lend, TypeOK, SlotsOK
    <2>4. act' \in [Tasks -> ActRecords]
      BY <2>1, ParkedType DEF Places, Waits
    <2> QED
      BY <2>1, <2>3, <2>4
  <1>2. CASE ~full
    <2>1. SlotsOK'
      BY <1>2 DEF Lend, TypeOK, SlotsOK
    <2> QED
      BY <1>2, <2>1, ControlTypes DEF Lend
  <1> QED
    BY <1>1, <1>2

\* scope:spawn by a child keeps the types.
LEMMA SpawnType ==
    ASSUME TypeOK, NEW t \in Tasks, NEW u \in Tasks, Spawn(t, u)
    PROVE  TypeOK'
  <1>1. left' \in [Tasks \union {Block} -> Nat]
    BY DoesType DEF Spawn
  <1>2. FlagsOK' /\ LanesOK' /\ HostOK' /\ BlockOK'
    BY SameGroups DEF Spawn
  <1>3. CASE ScopeRaises
    <2>1. RefuseBody(u, t) /\ Raises(t, Raised)
      BY <1>3 DEF Spawn
    <2>2. ScheduleOK'
      BY <1>3, <2>1, RefuseBodyType DEF Spawn, TypeOK, ScheduleOK
    <2>3. act' \in [Tasks -> ActRecords]
      BY <2>1, RaisesType, RaisedType
    <2>4. SlotsOK'
      BY <1>3 DEF Spawn, TypeOK, SlotsOK
    <2>5. ControlOK'
      BY <1>1, <1>3, <2>3 DEF Spawn, TypeOK, ControlOK, ActRecords
    <2> QED
      BY <1>2, <2>2, <2>4, <2>5 DEF TypeOK
  <1>4. CASE ~ScopeRaises
    <2>1. Register(u, t) /\ Lend(t, Full) /\ UNCHANGED <<queue, told, waiters>>
      BY <1>4 DEF Spawn
    <2>2. /\ list' \in Seq(Tasks) /\ status' \in [Tasks -> Statuses]
          /\ body' \in [Tasks -> {"none", "held", "called", "released"}]
          /\ by' \in [Tasks -> Tasks \union {Block, NoOne}]
          /\ requested' \in SUBSET Tasks /\ owed' \in Seq(Callbacks)
      BY <2>1, RegisterType
    <2>3. ScheduleOK'
      BY <2>1, <2>2 DEF TypeOK, ScheduleOK
    <2>4. SlotsOK' /\ act' \in [Tasks -> ActRecords] /\ cpu' \in Tasks \union {Block, Host}
      BY <2>1, LendType
    <2>5. ControlOK'
      BY <1>1, <2>2, <2>4 DEF ControlOK, ActRecords
    <2> QED
      BY <1>2, <2>3, <2>4, <2>5 DEF TypeOK
  <1> QED
    BY <1>3, <1>4

\* A submission keeps the types of the worker tasks.
LEMMA SubmitType ==
    ASSUME TypeOK, NEW w \in Forks, NEW parent \in Tasks \union {Block}, Submit(w, parent)
    PROVE  LanesOK'
  <1>1. outstanding' = Append(outstanding, w) /\ outstanding \in Seq(Forks)
    BY DEF Submit, TypeOK, LanesOK
  <1>2. outstanding' \in Seq(Forks)
    BY <1>1
  <1>3. fork' \in [Forks -> ForkRecords]
    BY ControlTypes DEF Submit, ForkRecords
  <1> QED
    BY <1>2, <1>3 DEF Submit, TypeOK, LanesOK

\* startWorker by a child keeps the types.
LEMMA WorkType ==
    ASSUME TypeOK, NEW t \in Tasks, NEW w \in Forks, Work(t, w)
    PROVE  TypeOK'
  <1>1. left' \in [Tasks \union {Block} -> Nat]
    BY DoesType DEF Work
  <1>2. FlagsOK' /\ HostOK' /\ BlockOK'
    BY SameGroups DEF Work
  <1>3. told' \in SUBSET Tasks
    BY ControlTypes DEF Work
  <1>4. ScheduleOK'
    BY <1>3 DEF Work, TypeOK, ScheduleOK
  <1>5. CASE ScopeRaises
    <2>1. Raises(t, Raised) /\ UNCHANGED <<lanes, lending, lent, slotWaiters, waiters, cpu, owed>>
      BY <1>5 DEF Work
    <2>2. act' \in [Tasks -> ActRecords]
      BY <2>1, RaisesType, RaisedType
    <2>3. SlotsOK' /\ LanesOK'
      BY <2>1, SameGroups DEF TypeOK, SlotsOK
    <2>4. ControlOK'
      BY <1>1, <2>1, <2>2 DEF TypeOK, ControlOK, ActRecords
    <2> QED
      BY <1>2, <1>4, <2>3, <2>4 DEF TypeOK
  <1>6. CASE ~ScopeRaises
    <2>1. Submit(w, t) /\ Lend(t, Full) /\ waiters' = waiters /\ owed' = owed
      BY <1>6 DEF Work
    <2>2. SlotsOK' /\ act' \in [Tasks -> ActRecords] /\ cpu' \in Tasks \union {Block, Host}
      BY <2>1, LendType
    <2>3. LanesOK'
      BY <2>1, SubmitType
    <2>4. ControlOK'
      BY <1>1, <2>1, <2>2, ControlTypes DEF ControlOK, ActRecords
    <2> QED
      BY <1>2, <1>4, <2>2, <2>3, <2>4 DEF TypeOK
  <1> QED
    BY <1>5, <1>6

\* TaskMT.await by a child keeps the types.
LEMMA AwaitType ==
    ASSUME TypeOK, NEW t \in Tasks, NEW u \in Tasks, Await(t, u)
    PROVE  TypeOK'
  <1>1. left' \in [Tasks \union {Block} -> Nat]
    BY DoesType DEF Await
  <1>2. ScheduleOK' /\ FlagsOK' /\ LanesOK' /\ HostOK' /\ BlockOK'
    BY SameGroups DEF Await
  <1>3. u \in Nat /\ "awaited" \in Places /\ "await" \in Places
    BY TasksAssumption DEF Places, Waits
  <1>4. CASE act' = [act EXCEPT ![t] = Parked("awaited", u)] /\ UNCHANGED <<waiters, cpu>>
    <2>1. act' \in [Tasks -> ActRecords]
      BY <1>3, <1>4, ParkedType
    <2>2. SlotsOK'
      BY <1>4 DEF Await, TypeOK, SlotsOK
    <2>3. ControlOK'
      BY <1>1, <1>4, <2>1 DEF Await, TypeOK, ControlOK, ActRecords
    <2> QED
      BY <1>2, <2>2, <2>3 DEF TypeOK
  <1>5. CASE /\ act' = [act EXCEPT ![t] = Parked("await", u)]
             /\ waiters' = [waiters EXCEPT ![u] = Append(@, t)]
             /\ cpu' = Block
    <2>1. act' \in [Tasks -> ActRecords]
      BY <1>3, <1>5, ParkedType
    <2>2. waiters \in [Tasks -> Seq(Tasks)]
      BY DEF TypeOK, SlotsOK
    <2>3. Append(waiters[u], t) \in Seq(Tasks)
      BY <2>2
    <2>4. waiters' \in [Tasks -> Seq(Tasks)]
      BY <1>5, <2>2, <2>3
    <2>5. SlotsOK'
      BY <2>4 DEF Await, TypeOK, SlotsOK
    <2>6. ControlOK'
      BY <1>1, <1>5, <2>1 DEF Await, TypeOK, ControlOK, ActRecords
    <2> QED
      BY <1>2, <2>5, <2>6 DEF TypeOK
  <1> QED
    BY <1>4, <1>5 DEF Await

\* The end of TaskMT.await keeps the types, whatever it awaited.
LEMMA AwaitReturnsType ==
    ASSUME TypeOK, NEW t \in Tasks, AwaitReturns(t)
    PROVE  TypeOK'
  <1>1. told' \in SUBSET Tasks
    BY ControlTypes DEF AwaitReturns
  <1>2. \E p \in Places : Raises(t, p)
    <2>1. CASE ScopeRaises
      BY <2>1, RaisedType DEF AwaitReturns
    <2>2. CASE ~ScopeRaises
      <3> DEFINE st == status[act[t].on]
      <3>1. Raises(t, CASE st = "done" -> "body" [] st = "cancelled" -> "raisedCancel"
                        [] OTHER -> "raisedError")
        BY <2>2 DEF AwaitReturns
      <3>2. (CASE st = "done" -> "body" [] st = "cancelled" -> "raisedCancel"
                [] OTHER -> "raisedError") \in Places
        <4> HIDE DEF st
        <4> QED BY DEF Places
      <3> QED
        BY <3>1, <3>2
    <2> QED
      BY <2>1, <2>2
  <1>3. act' \in [Tasks -> ActRecords]
    BY <1>2, RaisesType
  <1>4. UNCHANGED <<queue, list, status, requested, body, by, slots, flags, lanes, host,
                   cpu, block, left, owed>>
    BY DEF AwaitReturns
  <1> QED
    BY <1>1, <1>3, <1>4, ControlTypes, ToldType DEF flags

\* ForkMT.await by a child keeps the types.
LEMMA AwaitForkType ==
    ASSUME TypeOK, NEW t \in Tasks, NEW w \in Forks, AwaitFork(t, w)
    PROVE  TypeOK'
  <1>1. left' \in [Tasks \union {Block} -> Nat]
    BY DoesType DEF AwaitFork
  <1>2. told' \in SUBSET Tasks
    BY ControlTypes DEF AwaitFork
  <1>3. act' \in [Tasks -> ActRecords]
    <2>1. CASE ScopeRaises
      BY <2>1, RaisedType, RaisesType DEF AwaitFork
    <2>2. CASE ~ScopeRaises
      <3>1. w \in Nat /\ "forked" \in Places
        BY TasksAssumption DEF Places
      <3> QED
        BY <2>2, <3>1, ParkedType DEF AwaitFork
    <2> QED
      BY <2>1, <2>2
  <1>4. owed' \in Seq(Callbacks)
    <2>1. <<Call("route", w)>> \in Seq(Callbacks)
      BY CallTypes
    <2>2. owed' = owed \/ owed' = <<Call("route", w)>> \/ owed' = <<>>
      BY DEF AwaitFork
    <2>3. owed \in Seq(Callbacks) /\ <<>> \in Seq(Callbacks)
      BY ControlTypes
    <2> QED
      BY <2>1, <2>2, <2>3
  <1>5. UNCHANGED <<queue, list, status, requested, body, by, slots, flags, lanes, host,
                   cpu, block>>
    BY DEF AwaitFork
  <1> QED
    BY <1>1, <1>2, <1>3, <1>4, <1>5, ControlTypes, ToldType DEF flags

\* The wait for a reply and its end keep the types.
LEMMA AwaitForkReturnsType ==
    ASSUME TypeOK, NEW t \in Tasks, AwaitForkReturns(t)
    PROVE  TypeOK'
  <1> DEFINE w == act[t].on
  <1>1. UNCHANGED <<queue, list, status, requested, body, by, slots, failed, deliberate,
                   settling, closed, forks, outstanding, host, block, left>>
    BY DEF AwaitForkReturns
  <1>2. CASE fork[w].task = "queued"
    <2>1. /\ fork' = [fork EXCEPT ![w].waiter = t]
          /\ act' = [act EXCEPT ![t] = Parked("fork", w)]
          /\ cpu' = Block /\ UNCHANGED <<cancelled, owed, told>>
      BY <1>2 DEF AwaitForkReturns
    <2>2. w \in Nat /\ "fork" \in Places
      BY ControlTypes DEF Places, Waits, ActRecords
    <2> HIDE DEF w
    <2>3. act' \in [Tasks -> ActRecords]
      BY <2>1, <2>2, ParkedType
    <2>4. fork' \in [Forks -> ForkRecords]
      BY <2>1, ControlTypes, ForkChanges DEF Replies, Ends
    <2>5. ScheduleOK'
      BY <1>1, <2>1 DEF TypeOK, ScheduleOK
    <2>6. SlotsOK' /\ HostOK' /\ BlockOK'
      BY <1>1, SameGroups
    <2>7. FlagsOK'
      BY <1>1, <2>1 DEF TypeOK, FlagsOK
    <2>8. LanesOK'
      BY <1>1, <2>4 DEF TypeOK, LanesOK
    <2>9. ControlOK'
      BY <1>1, <2>1, <2>3 DEF TypeOK, ControlOK, ActRecords
    <2> QED
      BY <2>5, <2>6, <2>7, <2>8, <2>9 DEF TypeOK
  <1>3. CASE fork[w].task # "queued"
    <2>1. DeadlinePassed /\ UNCHANGED <<fork, cpu>>
      BY <1>3 DEF AwaitForkReturns
    <2>2. cancelled' \in BOOLEAN /\ owed' \in Seq(Callbacks)
      BY <2>1, DeadlinePassedType
    <2>3. told' \in SUBSET Tasks
      BY <1>3, ControlTypes DEF AwaitForkReturns
    <2>4. \E p \in Places : Raises(t, p)
      <3> DEFINE st == fork[w].task
      <3>1. \/ Raises(t, Raised)
            \/ Raises(t, CASE st = "done" -> "body" [] st = "cancelled" -> "raisedCancel"
                           [] OTHER -> "raisedError")
        <4>1. CASE ~settling /\ (failed \/ (cancelled' /\ ~deliberate))
          BY <1>3, <4>1 DEF AwaitForkReturns
        <4>2. CASE ~(~settling /\ (failed \/ (cancelled' /\ ~deliberate)))
          BY <1>3, <4>2 DEF AwaitForkReturns
        <4> QED
          BY <4>1, <4>2
      <3>2. (CASE st = "done" -> "body" [] st = "cancelled" -> "raisedCancel"
                [] OTHER -> "raisedError") \in Places
        <4> HIDE DEF st
        <4> QED BY DEF Places
      <3> QED
        BY <3>1, <3>2, RaisedType
    <2>5. act' \in [Tasks -> ActRecords]
      BY <2>4, RaisesType
    <2>6. UNCHANGED lanes
      BY <1>1, <2>1 DEF lanes
    <2> QED
      BY <1>1, <2>1, <2>2, <2>3, <2>5, <2>6, ControlTypes, ToldType
  <1> QED
    BY <1>2, <1>3

\* TaskMT.cancel keeps the types in its three cases.
LEMMA CancelChildType ==
    ASSUME TypeOK, NEW u \in Tasks, CancelChild(u), UNCHANGED <<told, by>>
    PROVE  ScheduleOK' /\ SlotsOK' /\ act' \in [Tasks -> ActRecords] /\ owed' \in Seq(Callbacks)
  <1>1. CASE UNCHANGED <<queue, list, status, requested, body, lending, lent, waiters,
                         slotWaiters, act, owed>>
    <2>1. ScheduleOK' /\ SlotsOK'
      BY <1>1 DEF TypeOK, ScheduleOK, SlotsOK
    <2> QED
      BY <1>1, <2>1, ControlTypes
  <1>2. CASE /\ requested' = requested \union {u}
             /\ body' = [body EXCEPT ![u] = "released"]
             /\ act' = [act EXCEPT ![u].at = "over"]
             /\ SettleChild(u, "cancelled", <<>>)
    <2>1. <<>> \in Seq(Callbacks) /\ "cancelled" \in Ends
      BY DEF Ends
    <2>2. /\ status' \in [Tasks -> Statuses]
          /\ queue' \in Seq(Tasks) /\ list' \in Seq(Tasks)
          /\ SlotsOK' /\ owed' \in Seq(Callbacks)
      BY <1>2, <2>1, SettleChildType
    <2>3. act' \in [Tasks -> ActRecords]
      BY <1>2, ControlTypes, ActChanges DEF Places
    <2>4. ScheduleOK'
      BY <1>2, <2>2 DEF TypeOK, ScheduleOK
    <2> QED
      BY <2>2, <2>3, <2>4
  <1>3. CASE /\ requested' = requested \union {u}
             /\ owed' = <<Call("mark", u)>>
             /\ UNCHANGED <<queue, list, status, body, lending, lent, waiters, slotWaiters, act>>
    <2>1. owed' \in Seq(Callbacks)
      BY <1>3, CallTypes
    <2>2. ScheduleOK' /\ SlotsOK'
      BY <1>3 DEF TypeOK, ScheduleOK, SlotsOK
    <2> QED
      BY <1>3, <2>1, <2>2, ControlTypes
  <1> QED
    BY <1>1, <1>2, <1>3 DEF CancelChild

\* TaskMT.cancel by a child keeps the types.
LEMMA CancelType ==
    ASSUME TypeOK, NEW t \in Tasks, NEW u \in Tasks, CancelTask(t, u)
    PROVE  TypeOK'
  <1>1. left' \in [Tasks \union {Block} -> Nat]
    BY DoesType DEF CancelTask
  <1>2. ScheduleOK' /\ SlotsOK' /\ act' \in [Tasks -> ActRecords] /\ owed' \in Seq(Callbacks)
    BY CancelChildType DEF CancelTask
  <1>3. FlagsOK' /\ LanesOK' /\ HostOK' /\ BlockOK'
    BY SameGroups DEF CancelTask
  <1>4. ControlOK'
    BY <1>1, <1>2 DEF CancelTask, TypeOK, ControlOK, ActRecords
  <1> QED
    BY <1>2, <1>3, <1>4 DEF TypeOK

\* ForkMT.cancel by a child keeps the types.
LEMMA CancelForkType ==
    ASSUME TypeOK, NEW t \in Tasks, NEW w \in Forks, CancelFork(t, w)
    PROVE  TypeOK'
  <1>1. left' \in [Tasks \union {Block} -> Nat]
    BY DoesType DEF CancelFork
  <1>2. owed' \in Seq(Callbacks)
    BY CallTypes DEF CancelFork
  <1> QED
    BY <1>1, <1>2, ControlTypes, MoveType DEF CancelFork

\* A step that cancels the scope, whoever takes it.
LEMMA CancelImplType ==
    ASSUME TypeOK, CancelImpl, left' \in [Tasks \union {Block} -> Nat],
           UNCHANGED <<schedule, slots, failed, settling, closed, lanes, host, cpu, act, block>>
    PROVE  TypeOK'
  <1>1. ScheduleOK' /\ SlotsOK' /\ LanesOK' /\ HostOK' /\ BlockOK'
    BY SameGroups
  <1>2. FlagsOK'
    BY DEF CancelImpl, TypeOK, FlagsOK
  <1>3. owed' \in Seq(Callbacks)
    BY FamilyCallsType DEF CancelImpl
  <1>4. ControlOK'
    BY <1>3 DEF TypeOK, ControlOK
  <1> QED
    BY <1>1, <1>2, <1>4 DEF TypeOK

\* A child that cancels its scope keeps the types.
LEMMA CancelScopeType ==
    ASSUME TypeOK, NEW t \in Tasks, CancelScope(t)
    PROVE  TypeOK'
  BY DoesType, CancelImplType DEF CancelScope

-----------------------------------------------------------------------------
(* The steps of the block *)

\* The block's budget stays a natural number.
LEMMA BlockDoesType ==
    ASSUME TypeOK, NEW op, BlockDoes(op)
    PROVE  left' \in [Tasks \union {Block} -> Nat]
  BY DEF TypeOK, ControlOK, BlockDoes

\* A step that moves the block and leaves the scope alone, or asks it to stop.
LEMMA BlockMoveType ==
    ASSUME TypeOK, BlockOK', left' \in [Tasks \union {Block} -> Nat],
           owed' \in Seq(Callbacks), cancelled' \in BOOLEAN,
           UNCHANGED <<schedule, slots, failed, deliberate, settling, closed, lanes, host, cpu, act>>
    PROVE  TypeOK'
  <1>1. ScheduleOK' /\ SlotsOK' /\ LanesOK' /\ HostOK'
    BY SameGroups
  <1>2. FlagsOK'
    BY DEF TypeOK, FlagsOK
  <1>3. ControlOK'
    BY DEF TypeOK, ControlOK
  <1> QED
    BY <1>1, <1>2, <1>3 DEF TypeOK

\* The block's places, for the steps below.
LEMMA PlaceTypes ==
    /\ {"run", "slot", "pump", "pumping", "drive", "driving", "leaving", "out", "reply",
        "workers", "done"} \subseteq BlockPlaces
    /\ {"none", "spawn", "work", "await", "fork", "ext", "drain"} \subseteq BlockOperations
    /\ \A t \in Tasks : t \in Nat
    /\ \A w \in Forks : w \in Nat
  BY TasksAssumption DEF BlockPlaces, BlockOperations

\* The block asks the lane of the oldest listed worker task, or one it holds.
LEMMA OldestType ==
    ASSUME TypeOK, outstanding # <<>>
    PROVE  Head(outstanding) \in Forks /\ <<Call("route", Head(outstanding))>> \in Seq(Callbacks)
  <1>1. Head(outstanding) \in Forks
    BY DEF TypeOK, LanesOK
  <1> QED
    BY <1>1, CallTypes

\* scope:spawn by the block keeps the types, refused or admitted.
LEMMA BlockSpawnType ==
    ASSUME TypeOK, NEW u \in Tasks, BlockSpawn(u)
    PROVE  TypeOK'
  <1>1. left' \in [Tasks \union {Block} -> Nat]
    BY BlockDoesType DEF BlockSpawn
  <1>2. SlotsOK' /\ FlagsOK' /\ LanesOK' /\ HostOK'
    BY SameGroups DEF BlockSpawn
  <1>3. ControlOK'
    BY <1>1 DEF BlockSpawn, TypeOK, ControlOK
  <1>4. CASE ScopeRaises
    <2>1. RefuseBody(u, Block) /\ UNCHANGED <<block, queue, told>>
      BY <1>4 DEF BlockSpawn
    <2>2. ScheduleOK'
      BY <2>1, RefuseBodyType DEF TypeOK, ScheduleOK
    <2>3. BlockOK'
      BY <2>1, SameGroups
    <2> QED
      BY <1>2, <1>3, <2>2, <2>3 DEF TypeOK
  <1>5. CASE ~ScopeRaises
    <2>1. ScheduleOK'
      BY <1>5 DEF BlockSpawn, TypeOK, ScheduleOK, Statuses
    <2>2. block' = Doing("slot", "spawn", u)
      BY <1>5 DEF BlockSpawn
    <2>3. BlockOK'
      BY <2>2, PlaceTypes, BlockStarts
    <2> QED
      BY <1>2, <1>3, <2>1, <2>3 DEF TypeOK
  <1> QED
    BY <1>4, <1>5

\* scope:work by the block keeps the types.
LEMMA BlockWorkType ==
    ASSUME TypeOK, NEW w \in Forks, BlockWork(w)
    PROVE  TypeOK'
  <1>1. left' \in [Tasks \union {Block} -> Nat]
    BY BlockDoesType DEF BlockWork
  <1>2. ScheduleOK' /\ SlotsOK' /\ FlagsOK' /\ HostOK'
    BY SameGroups DEF BlockWork
  <1>3. ControlOK'
    BY <1>1 DEF BlockWork, TypeOK, ControlOK
  <1>4. fork' \in [Forks -> ForkRecords]
    <2>1. [fork EXCEPT ![w].task = "admitting"] \in [Forks -> ForkRecords]
      BY ControlTypes, ForkChanges DEF Replies, Ends
    <2> QED
      BY <2>1, ControlTypes DEF BlockWork
  <1>5. LanesOK'
    BY <1>4 DEF BlockWork, TypeOK, LanesOK
  <1>6. BlockOK'
    <2>1. CASE ScopeRaises
      BY <2>1, SameGroups DEF BlockWork
    <2>2. CASE ~ScopeRaises
      <3>1. block' = Doing("slot", "work", w)
        BY <2>2 DEF BlockWork
      <3> QED
        BY <3>1, PlaceTypes, BlockStarts
    <2> QED
      BY <2>1, <2>2
  <1> QED
    BY <1>2, <1>3, <1>5, <1>6 DEF TypeOK

\* The end of awaitSlot keeps the types; this is where the block's record
\* must say what it is starting.
LEMMA SlotTakenType ==
    ASSUME TypeOK, SlotTaken
    PROVE  TypeOK'
  <1>1. BlockOK'
    BY BlockRunning DEF SlotTaken
  <1>2. SlotsOK' /\ FlagsOK' /\ HostOK'
    BY SameGroups DEF SlotTaken
  <1>3. UNCHANGED <<queue, told, cpu, act, left>>
    BY DEF SlotTaken
  <1>4. /\ block.op = "spawn" => block.on \in Tasks
        /\ block.op = "work" => block.on \in Forks
        /\ block.op \in {"spawn", "work"}
    BY DEF SlotTaken, BlockRuns, TypeOK, BlockOK
  <1>5. CASE ScopeRaises
    <2>1. BlockRefused /\ UNCHANGED <<forks, outstanding, owed>>
      BY <1>5 DEF SlotTaken
    <2>2. ControlOK'
      BY <1>3, <2>1 DEF TypeOK, ControlOK
    <2>3. CASE block.op = "spawn"
      <3>1. RefuseBody(block.on, Block) /\ UNCHANGED lanes
        BY <2>1, <2>3 DEF BlockRefused, lanes
      <3>2. ScheduleOK'
        BY <1>3, <1>4, <2>3, <3>1, RefuseBodyType DEF TypeOK, ScheduleOK
      <3>3. LanesOK'
        BY <3>1, SameGroups
      <3> QED
        BY <1>1, <1>2, <2>2, <3>2, <3>3 DEF TypeOK
    <2>4. CASE block.op # "spawn"
      <3>1. /\ fork' = [fork EXCEPT ![block.on].task = "refused"]
            /\ UNCHANGED <<list, status, requested, body, by>>
        BY <2>1, <2>4 DEF BlockRefused
      <3>2. fork' \in [Forks -> ForkRecords]
        BY <3>1, ControlTypes, ForkChanges DEF Replies, Ends
      <3>3. LanesOK'
        BY <2>1, <3>2 DEF TypeOK, LanesOK
      <3>4. ScheduleOK'
        BY <1>3, <3>1 DEF TypeOK, ScheduleOK
      <3> QED
        BY <1>1, <1>2, <2>2, <3>3, <3>4 DEF TypeOK
    <2> QED
      BY <2>3, <2>4
  <1>6. CASE ~ScopeRaises /\ block.op = "spawn"
    <2>1. Register(block.on, Block) /\ UNCHANGED lanes
      BY <1>6 DEF SlotTaken
    <2>2. /\ list' \in Seq(Tasks) /\ status' \in [Tasks -> Statuses]
          /\ body' \in [Tasks -> {"none", "held", "called", "released"}]
          /\ by' \in [Tasks -> Tasks \union {Block, NoOne}]
          /\ requested' \in SUBSET Tasks /\ owed' \in Seq(Callbacks)
      BY <1>4, <1>6, <2>1, RegisterType
    <2>3. ScheduleOK'
      BY <1>3, <2>2 DEF TypeOK, ScheduleOK
    <2>4. LanesOK'
      BY <2>1, SameGroups
    <2>5. ControlOK'
      BY <1>3, <2>2 DEF TypeOK, ControlOK
    <2> QED
      BY <1>1, <1>2, <2>3, <2>4, <2>5 DEF TypeOK
  <1>7. CASE ~ScopeRaises /\ block.op # "spawn"
    <2>1. /\ Submit(block.on, Block)
          /\ UNCHANGED <<list, status, requested, body, by, owed>>
      BY <1>7 DEF SlotTaken
    <2>2. LanesOK'
      BY <1>4, <1>7, <2>1, SubmitType
    <2>3. ScheduleOK'
      BY <1>3, <2>1 DEF TypeOK, ScheduleOK
    <2>4. ControlOK'
      BY <1>3, <2>1 DEF TypeOK, ControlOK
    <2> QED
      BY <1>1, <1>2, <2>2, <2>3, <2>4 DEF TypeOK
  <1> QED
    BY <1>5, <1>6, <1>7

\* awaitSlot's wait and workerScope:close keep the types.
LEMMA SlotWantedType ==
    ASSUME TypeOK, SlotWanted \/ WorkersDrain
    PROVE  TypeOK'
  <1>1. \/ block' = [block EXCEPT !.at = "pump"] /\ owed' = owed
        \/ /\ outstanding # <<>>
           /\ block' = [block EXCEPT !.at = "reply", !.fork = Head(outstanding)]
           /\ owed' = <<Call("route", Head(outstanding))>>
    BY DEF SlotWanted, WorkersDrain
  <1>2. BlockOK /\ outstanding # <<>> => Head(outstanding) \in Nat
    BY OldestType, PlaceTypes
  <1>3. BlockOK'
    BY <1>1, <1>2, PlaceTypes, BlockMoves DEF TypeOK
  <1>4. owed' \in Seq(Callbacks)
    BY <1>1, OldestType, ControlTypes
  <1>5. UNCHANGED <<schedule, slots, flags, lanes, host, cpu, act, left>>
    BY DEF SlotWanted, WorkersDrain
  <1> QED
    BY <1>3, <1>4, <1>5, ControlTypes, BlockMoveType DEF flags

\* The block's own waits keep the types.
LEMMA BlockWaitsType ==
    ASSUME TypeOK, \/ \E u \in Tasks : BlockAwait(u)
                   \/ \E w \in Forks : BlockAwaitFork(w)
                   \/ BlockParks
    PROVE  TypeOK'
  <1>1. left' \in [Tasks \union {Block} -> Nat]
    BY BlockDoesType DEF BlockAwait, BlockAwaitFork, BlockParks
  <1>2. UNCHANGED <<schedule, slots, flags, lanes, host, cpu, act>>
    BY DEF BlockAwait, BlockAwaitFork, BlockParks
  <1>3. CASE \E u \in Tasks : BlockAwait(u)
    <2> PICK u \in Tasks : BlockAwait(u)
      BY <1>3
    <2>1. block' = Running \/ block' = Doing("pump", "await", u)
      BY DEF BlockAwait
    <2>2. BlockOK'
      BY <2>1, BlockRunning, BlockStarts, PlaceTypes
    <2> QED
      BY <1>1, <1>2, <2>2, ControlTypes, BlockMoveType DEF BlockAwait, flags
  <1>4. CASE \E w \in Forks : BlockAwaitFork(w)
    <2> PICK w \in Forks : BlockAwaitFork(w)
      BY <1>4
    <2>1. block' = block \/ block' = [Doing("reply", "fork", 0) EXCEPT !.fork = w]
      BY DEF BlockAwaitFork
    <2>2. BlockOK'
      <3>1. CASE block' = block
        BY <3>1, SameGroups
      <3>2. CASE block' = [Doing("reply", "fork", 0) EXCEPT !.fork = w]
        BY <3>2, BlockStarts, PlaceTypes
      <3> QED
        BY <2>1, <3>1, <3>2
    <2>3. <<Call("route", w)>> \in Seq(Callbacks) /\ <<>> \in Seq(Callbacks)
      BY CallTypes
    <2>4. owed' = owed \/ owed' = <<Call("route", w)>> \/ owed' = <<>>
      BY DEF BlockAwaitFork
    <2>5. owed' \in Seq(Callbacks)
      BY <2>3, <2>4, ControlTypes
    <2> QED
      BY <1>1, <1>2, <2>2, <2>5, ControlTypes, BlockMoveType DEF flags
  <1>5. CASE BlockParks
    <2>1. block' = [Doing("drive", "ext", 0) EXCEPT !.wait = "ext"] /\ owed' = owed
      BY <1>5 DEF BlockParks
    <2>2. BlockOK'
      BY <2>1, PlaceTypes DEF BlockOK, Doing
    <2> QED
      BY <1>1, <1>2, <2>1, <2>2, ControlTypes, BlockMoveType DEF flags
  <1> QED
    BY <1>3, <1>4, <1>5

\* What the block cancels, and its checkpoint, keep the types.
LEMMA BlockCancelsType ==
    ASSUME TypeOK, \/ \E u \in Tasks : BlockCancelTask(u)
                   \/ \E w \in Forks : BlockCancelFork(w)
                   \/ BlockCancelScope \/ BlockCheckpoint
    PROVE  TypeOK'
  <1>1. left' \in [Tasks \union {Block} -> Nat]
    BY BlockDoesType DEF BlockCancelTask, BlockCancelFork, BlockCancelScope, BlockCheckpoint
  <1>2. CASE \E u \in Tasks : BlockCancelTask(u)
    <2> PICK u \in Tasks : BlockCancelTask(u)
      BY <1>2
    <2>1. ScheduleOK' /\ SlotsOK' /\ act' \in [Tasks -> ActRecords] /\ owed' \in Seq(Callbacks)
      BY CancelChildType DEF BlockCancelTask
    <2>2. FlagsOK' /\ LanesOK' /\ HostOK' /\ BlockOK'
      BY SameGroups DEF BlockCancelTask
    <2>3. ControlOK'
      BY <1>1, <2>1 DEF BlockCancelTask, TypeOK, ControlOK, ActRecords
    <2> QED
      BY <2>1, <2>2, <2>3 DEF TypeOK
  <1>3. CASE \E w \in Forks : BlockCancelFork(w)
    <2> PICK w \in Forks : BlockCancelFork(w)
      BY <1>3
    <2>1. owed' \in Seq(Callbacks)
      BY CallTypes DEF BlockCancelFork
    <2> QED
      BY <1>1, <2>1, ControlTypes, MoveType DEF BlockCancelFork
  <1>4. CASE BlockCancelScope
    BY <1>1, <1>4, CancelImplType DEF BlockCancelScope
  <1>5. CASE BlockCheckpoint
    <2>1. cancelled' \in BOOLEAN /\ owed' \in Seq(Callbacks)
      BY <1>5, DeadlinePassedType DEF BlockCheckpoint
    <2>2. BlockOK'
      BY <1>5, SameGroups DEF BlockCheckpoint
    <2> QED
      BY <1>1, <1>5, <2>1, <2>2, BlockMoveType DEF BlockCheckpoint
  <1> QED
    BY <1>2, <1>3, <1>4, <1>5

\* Entering and leaving settle keep the types.
LEMMA ClosesType ==
    ASSUME TypeOK, BlockCloses \/ ScopeCloses
    PROVE  TypeOK'
  <1>1. ScheduleOK' /\ SlotsOK' /\ LanesOK' /\ HostOK'
    BY SameGroups DEF BlockCloses, ScopeCloses
  <1>2. BlockOK'
    BY BlockStarts, PlaceTypes DEF BlockCloses, ScopeCloses
  <1>3. FlagsOK'
    BY DEF BlockCloses, ScopeCloses, TypeOK, FlagsOK
  <1>4. owed' \in Seq(Callbacks)
    <2>1. owed' = owed \/ owed' = <<>> \/ owed' = Cancelling(list, outstanding)
      BY DEF BlockCloses, ScopeCloses
    <2>2. <<>> \in Seq(Callbacks)
      OBVIOUS
    <2> QED
      BY <2>1, <2>2, FamilyCallsType, ControlTypes
  <1>5. ControlOK'
    BY <1>4 DEF BlockCloses, ScopeCloses, TypeOK, ControlOK
  <1> QED
    BY <1>1, <1>2, <1>3, <1>5 DEF TypeOK

\* The passes of the driving loops keep the types.
LEMMA PassType ==
    ASSUME TypeOK, PumpReturns \/ PumpPass \/ PumpDefers \/ DrivePass \/ ReplyTaken
    PROVE  TypeOK'
  <1>1. left' = left /\ UNCHANGED <<schedule, slots, failed, deliberate, settling, closed, lanes,
                                    host, cpu, act>>
    BY DEF PumpReturns, PumpPass, PumpDefers, DrivePass, ReplyTaken, flags
  <1>2. cancelled' \in BOOLEAN /\ owed' \in Seq(Callbacks)
    <2>1. DeadlinePassed \/ UNCHANGED <<cancelled, owed>>
      BY DEF PumpReturns, PumpPass, PumpDefers, DrivePass, ReplyTaken, flags
    <2> QED
      BY <2>1, DeadlinePassedType, ControlTypes
  <1>3. \/ block' = Running
        \/ block.op \in {"spawn", "work"} /\ block' = [block EXCEPT !.at = "slot"]
        \/ \E p \in BlockPlaces \ {"slot"} : block' = [block EXCEPT !.at = p]
        \/ block' = [block EXCEPT !.at = "drive", !.wait = "turn", !.ready = FALSE]
    <2>1. CASE PumpReturns
      BY <2>1, PlaceTypes DEF PumpReturns
    <2>2. CASE PumpPass \/ PumpDefers \/ DrivePass
      BY <2>2, PlaceTypes DEF PumpPass, PumpDefers, DrivePass
    <2>3. CASE ReplyTaken
      BY <2>3, PlaceTypes DEF ReplyTaken
    <2> QED
      BY <2>1, <2>2, <2>3
  <1>4. BlockOK'
    <2>1. CASE block' = Running
      BY <2>1, BlockRunning
    <2>2. CASE block' # Running
      BY <1>3, <2>2, PlaceTypes, BlockMoves DEF TypeOK
    <2> QED
      BY <2>1, <2>2
  <1> QED
    BY <1>1, <1>2, <1>4, ControlTypes, BlockMoveType

\* takeRunnable and the resume keep the types.
LEMMA ResumesType ==
    ASSUME TypeOK, PumpResumes \/ DriveResumes
    PROVE  TypeOK'
  <1>1. queue # <<>> /\ ResumeChild
    BY DEF PumpResumes, DriveResumes
  <1>2. Head(queue) \in Tasks /\ Tail(queue) \in Seq(Tasks)
    BY <1>1 DEF TypeOK, ScheduleOK
  <1>3. status' \in [Tasks -> Statuses] /\ queue' \in Seq(Tasks) /\ cpu' \in Tasks
    BY <1>1, <1>2 DEF ResumeChild, TypeOK, ScheduleOK, Statuses
  <1>4. ScheduleOK'
    BY <1>3 DEF PumpResumes, DriveResumes, TypeOK, ScheduleOK
  <1>5. SlotsOK' /\ FlagsOK' /\ LanesOK'
    BY SameGroups DEF PumpResumes, DriveResumes
  <1>6. HostOK'
    BY <1>1 DEF ResumeChild, PumpResumes, DriveResumes, TypeOK, HostOK
  <1>7. BlockOK'
    BY PlaceTypes, BlockMoves DEF PumpResumes, DriveResumes, TypeOK
  <1>8. ControlOK'
    BY <1>3 DEF PumpResumes, DriveResumes, TypeOK, ControlOK
  <1> QED
    BY <1>4, <1>5, <1>6, <1>7, <1>8 DEF TypeOK

\* Parking and leaving the park keep the types.
LEMMA ParksType ==
    ASSUME TypeOK, PumpParks \/ DriveParks \/ DriveLeaves
    PROVE  TypeOK'
  <1>1. ScheduleOK' /\ SlotsOK' /\ FlagsOK' /\ LanesOK'
    BY SameGroups DEF PumpParks, DriveParks, DriveLeaves
  <1>2. HostOK'
    BY DEF PumpParks, DriveParks, DriveLeaves, TypeOK, HostOK
  <1>3. \/ block' = Running
        \/ block' = [block EXCEPT !.at = "out"]
        \/ block' = [block EXCEPT !.at = "drive", !.wait = "scope", !.ready = FALSE]
        \/ block' = [block EXCEPT !.at = "reply", !.wait = "none"]
        \/ block' = [block EXCEPT !.at = "pump", !.wait = "none"]
    BY DEF PumpParks, DriveParks, DriveLeaves
  <1>4. BlockOK'
    <2>1. CASE block' = Running
      BY <2>1, BlockRunning
    <2>2. CASE block' # Running
      BY <1>3, <2>2, PlaceTypes, BlockMoves DEF TypeOK
    <2> QED
      BY <2>1, <2>2
  <1>5. ControlOK'
    BY DEF PumpParks, DriveParks, DriveLeaves, TypeOK, ControlOK
  <1> QED
    BY <1>1, <1>2, <1>4, <1>5 DEF TypeOK

\* Giving up the block's wait keeps the types.
LEMMA DriveRaisesType ==
    ASSUME TypeOK, DriveRaises
    PROVE  TypeOK'
  <1>1. Abandon /\ UNCHANGED <<queue, told, slots, flags, forks, outstanding, woken, turn, expired,
                               cpu, act, left, owed>>
    BY DEF DriveRaises
  <1>2. SlotsOK' /\ FlagsOK'
    BY <1>1, SameGroups
  <1>3. BlockOK'
    BY <1>1, BlockRunning DEF Abandon
  <1>4. HostOK'
    BY <1>1 DEF Abandon, TypeOK, HostOK
  <1>5. ControlOK'
    BY <1>1 DEF TypeOK, ControlOK
  <1>6. fork' \in [Forks -> ForkRecords]
    <2>1. ASSUME NEW r \in ForkRecords, NEW who \in Tasks \union {Block, NoOne},
                 NEW st \in {"new", "admitting", "refused", "queued"} \union Ends
          PROVE  [r EXCEPT !.waiter = who, !.task = st] \in ForkRecords
      BY <2>1 DEF ForkRecords
    <2>2. ASSUME NEW w \in Forks
          PROVE  [fork[w] EXCEPT
                    !.waiter = IF @ = Block THEN NoOne ELSE @,
                    !.task = IF block.op = "work" /\ block.on = w THEN "refused" ELSE @]
                    \in ForkRecords
      <3>1. fork[w] \in ForkRecords
        BY ControlTypes
      <3>2. /\ fork[w].waiter \in Tasks \union {Block, NoOne}
            /\ fork[w].task \in {"new", "admitting", "refused", "queued"} \union Ends
        BY <3>1 DEF ForkRecords
      <3> QED
        BY <3>1, <3>2, <2>1
    <2> QED
      BY <1>1, <2>2 DEF Abandon
  <1>7. LanesOK'
    BY <1>1, <1>6 DEF TypeOK, LanesOK
  <1>8. ScheduleOK'
    <2>1. CASE block.op = "spawn"
      <3>1. block.on \in Tasks /\ RefuseBody(block.on, Block)
        BY <1>1, <2>1 DEF Abandon, TypeOK, BlockOK
      <3> QED
        BY <1>1, <3>1, RefuseBodyType DEF TypeOK, ScheduleOK
    <2>2. CASE block.op # "spawn"
      BY <1>1, <2>2 DEF Abandon, TypeOK, ScheduleOK
    <2> QED
      BY <2>1, <2>2
  <1> QED
    BY <1>2, <1>3, <1>4, <1>5, <1>7, <1>8 DEF TypeOK

\* waitFor by the block keeps the types.
LEMMA ReplyAwaitedType ==
    ASSUME TypeOK, ReplyAwaited
    PROVE  TypeOK'
  <1>1. ScheduleOK' /\ SlotsOK' /\ FlagsOK' /\ HostOK'
    BY SameGroups DEF ReplyAwaited
  <1>2. fork' \in [Forks -> ForkRecords]
    BY ControlTypes, ForkChanges DEF ReplyAwaited, Replies, Ends
  <1>3. LanesOK'
    BY <1>2 DEF ReplyAwaited, TypeOK, LanesOK
  <1>4. BlockOK'
    BY PlaceTypes, BlockMoves DEF ReplyAwaited, TypeOK
  <1>5. ControlOK'
    BY DEF ReplyAwaited, TypeOK, ControlOK
  <1> QED
    BY <1>1, <1>3, <1>4, <1>5 DEF TypeOK

-----------------------------------------------------------------------------
(* The host, the lanes and the clock *)

\* The host's looks at the combined wait, the timer and the clock keep the types.
LEMMA HostWaitsType ==
    ASSUME TypeOK, HostResumes \/ HostArms \/ TimerFires \/ ClockPasses
    PROVE  TypeOK'
  <1>1. ScheduleOK' /\ SlotsOK' /\ FlagsOK' /\ LanesOK'
    BY SameGroups DEF HostResumes, HostArms, TimerFires, ClockPasses
  <1>2. ControlOK'
    BY DEF HostResumes, HostArms, TimerFires, ClockPasses, TypeOK, ControlOK
  <1>3. BlockOK'
    <2>1. CASE HostResumes
      BY <2>1, PlaceTypes, BlockMoves DEF HostResumes, TypeOK
    <2>2. CASE TimerFires
      BY <2>2, FireWakersType DEF TimerFires
    <2>3. CASE HostArms \/ ClockPasses
      BY <2>3, SameGroups DEF HostArms, ClockPasses
    <2> QED
      BY <2>1, <2>2, <2>3
  <1>4. HostOK'
    <2>1. CASE HostResumes \/ HostArms \/ ClockPasses
      BY <2>1 DEF HostResumes, HostArms, ClockPasses, TypeOK, HostOK
    <2>2. CASE TimerFires
      BY <2>2, FireWakersType DEF TimerFires, TypeOK, HostOK
    <2> QED
      BY <2>1, <2>2
  <1> QED
    BY <1>1, <1>2, <1>3, <1>4 DEF TypeOK

\* What a poll delivers is a resume or a route.
LEMMA DeliversType ==
    ASSUME TypeOK, \/ BlockReady \/ NextTurn
                   \/ \E t \in Tasks : ExternalReady(t)
                   \/ \E w \in Forks : RouteReply(w)
    PROVE  TypeOK'
  <1>1. owed' \in Seq(Callbacks)
    <2>1. \/ \E t \in Tasks \union {Block} : owed' = <<Call("resume", t)>>
          \/ \E w \in Forks : owed' = <<Call("route", w)>>
          \/ owed' = <<>>
      BY DEF BlockReady, NextTurn, ExternalReady, RouteReply
    <2>2. <<>> \in Seq(Callbacks)
      OBVIOUS
    <2>3. \A t \in Tasks \union {Block} : <<Call("resume", t)>> \in Seq(Callbacks)
      BY CallTypes
    <2>4. \A w \in Forks : <<Call("route", w)>> \in Seq(Callbacks)
      BY CallTypes
    <2> QED
      BY <2>1, <2>2, <2>3, <2>4
  <1>2. ScheduleOK' /\ SlotsOK' /\ FlagsOK' /\ LanesOK' /\ BlockOK'
    BY SameGroups DEF BlockReady, NextTurn, ExternalReady, RouteReply
  <1>3. HostOK'
    <2>1. CASE UNCHANGED host
      BY <2>1, SameGroups
    <2>2. CASE NextTurn
      BY <2>2, LimitAssumption DEF NextTurn, TypeOK, HostOK
    <2> QED
      BY <2>1, <2>2 DEF BlockReady, ExternalReady, RouteReply
  <1>4. ControlOK'
    BY <1>1 DEF BlockReady, NextTurn, ExternalReady, RouteReply, TypeOK, ControlOK
  <1> QED
    BY <1>2, <1>3, <1>4 DEF TypeOK

\* A lane's steps keep the types.
LEMMA LaneType ==
    ASSUME TypeOK, NEW w \in Forks, LaneStep(w)
    PROVE  TypeOK'
  <1>1. /\ UNCHANGED <<schedule, slots, flags, forks, outstanding, host, cpu, act, block, left, owed>>
        /\ \/ fork' = [fork EXCEPT ![w].lane = "running"]
           \/ \E outcome \in Replies :
                 fork' = [fork EXCEPT ![w].lane = "finished", ![w].end = outcome]
           \/ fork[w].lane = "finished" /\ fork' = [fork EXCEPT ![w].lane = fork[w].end]
    BY DEF LaneStep, LaneStarts, LaneFinishes, LaneReplies
  <1>2. fork[w].end \in {"none"} \union Replies
    BY ControlTypes DEF ForkRecords
  <1>3. \/ \E ln \in {"none", "running"} \union Replies : fork' = [fork EXCEPT ![w].lane = ln]
        \/ \E outcome \in Replies :
              fork' = [fork EXCEPT ![w].lane = "finished", ![w].end = outcome]
    BY <1>1, <1>2
  <1>4. fork' \in [Forks -> ForkRecords]
    <2>1. CASE \E ln \in {"none", "running"} \union Replies : fork' = [fork EXCEPT ![w].lane = ln]
      <3> PICK ln \in {"none", "running"} \union Replies : fork' = [fork EXCEPT ![w].lane = ln]
        BY <2>1
      <3>1. fork \in [Forks -> ForkRecords] /\ NoOne \in Tasks \union {Block, NoOne}
        BY ControlTypes
      <3>2. "done" \in Replies
        BY DEF Replies, Ends
      <3>3. [fork EXCEPT ![w].lane = ln] \in [Forks -> ForkRecords]
        BY <3>1, <3>2, ForkChanges
      <3> QED
        BY <3>3
    <2>2. CASE \E outcome \in Replies :
                 fork' = [fork EXCEPT ![w].lane = "finished", ![w].end = outcome]
      <3> PICK outcome \in Replies :
                 fork' = [fork EXCEPT ![w].lane = "finished", ![w].end = outcome]
        BY <2>2
      <3>1. fork \in [Forks -> ForkRecords] /\ NoOne \in Tasks \union {Block, NoOne}
        BY ControlTypes
      <3> QED
        BY <3>1, ForkChanges
    <2> QED
      BY <1>3, <2>1, <2>2
  <1>5. ScheduleOK' /\ SlotsOK' /\ FlagsOK' /\ HostOK' /\ BlockOK' /\ ControlOK'
    BY <1>1, SameGroups
  <1>6. LanesOK'
    BY <1>1, <1>4 DEF TypeOK, LanesOK
  <1> QED
    BY <1>5, <1>6 DEF TypeOK

-----------------------------------------------------------------------------
\* A scope opens well typed.
LEMMA InitType == Init => TypeOK
  <1> SUFFICES ASSUME Init PROVE TypeOK
    OBVIOUS
  <1>1. ScheduleOK
    BY DEF Init, ScheduleOK, Statuses
  <1>2. SlotsOK
    BY DEF Init, SlotsOK
  <1>3. FlagsOK
    BY DEF Init, FlagsOK
  <1>4. LanesOK
    BY DEF Init, LanesOK, ForkRecords
  <1>5. HostOK
    <2>1. wakers = {} /\ woken = FALSE /\ timer = "off" /\ turn = Activations /\ expired = FALSE
      BY DEF Init
    <2>2. turn \in Int
      BY <2>1, LimitAssumption
    <2> QED
      BY <2>1, <2>2 DEF HostOK
  <1>6. BlockOK
    BY DEF Init, BlockOK, BlockPlaces, BlockOperations
  <1>7. ControlOK
    BY StepsAssumption DEF Init, ControlOK, Places
  <1> QED
    BY <1>1, <1>2, <1>3, <1>4, <1>5, <1>6, <1>7 DEF TypeOK

\* Every step keeps the types.
LEMMA NextType ==
    ASSUME TypeOK, [Next]_vars
    PROVE  TypeOK'
  <1>1. CASE RunCallback
    BY <1>1, RunResumeType, RunRequestType, RunRouteType, RunCancelType DEF RunCallback
  <1>2. CASE \E t \in Tasks : TaskStep(t)
    <2> PICK t \in Tasks : TaskStep(t)
      BY <1>2
    <2>1. CASE Enter(t) \/ WakeCancelled(t) \/ WakeEarly(t) \/ WakeReady(t) \/ WakeLender(t)
               \/ WakeDrained(t) \/ BodyReturns(t) \/ BodyFails(t) \/ Unwinds(t) \/ Catch(t)
      BY <2>1, EnterType, WakeCancelledType, WakeType, WakeLenderType, EndsType
    <2>2. CASE ParkExternally(t) \/ Checkpoint(t) \/ AwaitReturns(t) \/ AwaitForkReturns(t)
               \/ CancelScope(t) \/ \E d \in Deliberate : DrainNested(t, d)
      BY <2>2, ParkType, CheckpointType, AwaitReturnsType, AwaitForkReturnsType, CancelScopeType
    <2>3. CASE \E u \in Tasks : Spawn(t, u) \/ Await(t, u) \/ CancelTask(t, u)
      BY <2>3, SpawnType, AwaitType, CancelType
    <2>4. CASE \E w \in Forks : Work(t, w) \/ AwaitFork(t, w) \/ CancelFork(t, w)
      BY <2>4, WorkType, AwaitForkType, CancelForkType
    <2> QED
      BY <2>1, <2>2, <2>3, <2>4 DEF TaskStep
  <1>3. CASE BlockStep
    <2>1. CASE \E u \in Tasks : BlockSpawn(u) \/ BlockAwait(u) \/ BlockCancelTask(u)
      BY <2>1, BlockSpawnType, BlockWaitsType, BlockCancelsType
    <2>2. CASE \E w \in Forks : BlockWork(w) \/ BlockAwaitFork(w) \/ BlockCancelFork(w)
      BY <2>2, BlockWorkType, BlockWaitsType, BlockCancelsType
    <2>3. CASE BlockParks \/ BlockCancelScope \/ BlockCheckpoint \/ BlockCloses
               \/ SlotTaken \/ SlotWanted
      BY <2>3, BlockWaitsType, BlockCancelsType, ClosesType, SlotTakenType, SlotWantedType
    <2>4. CASE PumpReturns \/ PumpPass \/ PumpResumes \/ PumpParks \/ PumpDefers
      BY <2>4, PassType, ResumesType, ParksType
    <2>5. CASE DrivePass \/ DriveRaises \/ DriveResumes \/ DriveParks \/ DriveLeaves
      BY <2>5, PassType, DriveRaisesType, ResumesType, ParksType
    <2>6. CASE ReplyAwaited \/ ReplyTaken \/ WorkersDrain \/ ScopeCloses
      BY <2>6, ReplyAwaitedType, PassType, SlotWantedType, ClosesType
    <2> QED
      BY <1>3, <2>1, <2>2, <2>3, <2>4, <2>5, <2>6 DEF BlockStep
  <1>4. CASE HostStep
    BY <1>4, HostWaitsType, DeliversType DEF HostStep
  <1>5. CASE \E w \in Forks : LaneStep(w)
    BY <1>5, LaneType
  <1>6. CASE ClockPasses
    BY <1>6, HostWaitsType
  <1>7. CASE UNCHANGED vars
    BY <1>7, SameGroups DEF vars, TypeOK
  <1> QED
    BY <1>1, <1>2, <1>3, <1>4, <1>5, <1>6, <1>7 DEF Next

\* Every variable of the scope keeps its type in every behaviour: what is
\* queued, listed, waiting or owed a callback is always a child, a worker task
\* or the block, whatever the limit, the deadline and the host.
THEOREM TypeCorrect == Spec => []TypeOK
  BY InitType, NextType, PTL DEF Spec

-----------------------------------------------------------------------------
(* A failure is the scope's *)

\* What a step may do about failures: the scope's flags stay set, and a task
\* fails only where both are.
Owning ==
    /\ (failed => failed') /\ (cancelled => cancelled')
    /\ \A t \in Tasks : status'[t] = "failed" => status[t] = "failed" \/ (failed' /\ cancelled')
    /\ \A w \in Forks :
         fork'[w].task = "failed" => fork[w].task = "failed" \/ (failed' /\ cancelled')

\* A step of that kind keeps FailureOwned.
LEMMA OwningSuffices ==
    ASSUME FailureOwned, Owning
    PROVE  FailureOwned'
  BY DEF FailureOwned, Owning

\* A step that settles nothing.
LEMMA OwningSame ==
    ASSUME UNCHANGED <<status, failed, fork>>, cancelled => cancelled'
    PROVE  Owning
  BY DEF Owning

\* A step that gives a child another status.
LEMMA OwningStatus ==
    ASSUME TypeOK, NEW t, NEW st, st # "failed", status' = [status EXCEPT ![t] = st],
           UNCHANGED <<failed, fork>>, cancelled => cancelled'
    PROVE  Owning
  BY DEF Owning, TypeOK, ScheduleOK

\* A worker task that settles as failed makes the scope failed and cancelled.
LEMMA OwningForkSettled ==
    ASSUME TypeOK, NEW w \in Forks, NEW st, NEW after, ForkSettled(w, st, after),
           fork'[w].task = st, \A v \in Forks \ {w} : fork'[v] = fork[v], UNCHANGED status
    PROVE  Owning
  BY DEF Owning, ForkSettled

\* So does a failed reply, when it is routed.
LEMMA OwningRoute ==
    ASSUME TypeOK, NEW w \in Forks, Route(w), UNCHANGED status
    PROVE  Owning
  <1>1. fork \in [Forks -> ForkRecords]
    BY ControlTypes
  <1>2. CASE fork[w].task = "queued"
    <2>1. \E after : ForkSettled(w, fork[w].lane, after)
      BY <1>2 DEF Route
    <2>2. fork' = [fork EXCEPT ![w].task = fork[w].lane, ![w].lane = "routed", ![w].waiter = NoOne]
      BY <1>2 DEF Route
    <2>3. fork'[w].task = fork[w].lane /\ \A v \in Forks \ {w} : fork'[v] = fork[v]
      BY <1>1, <2>2 DEF ForkRecords
    <2> QED
      BY <2>1, <2>3, OwningForkSettled
  <1>3. CASE fork[w].task # "queued"
    <2>1. /\ fork' = [fork EXCEPT ![w].lane = "routed", ![w].waiter = NoOne]
          /\ UNCHANGED <<failed, cancelled>>
      BY <1>3 DEF Route
    <2>2. \A v \in Forks : fork'[v].task = fork[v].task
      BY <1>1, <2>1 DEF ForkRecords
    <2> QED
      BY <2>1, <2>2 DEF Owning
  <1> QED
    BY <1>2, <1>3

\* No callback lets a failure go unowned.
LEMMA OwningCallback ==
    ASSUME TypeOK, RunCallback
    PROVE  Owning
  <1>1. CASE RunResume \/ RunRequest \/ RunMark
    BY <1>1, OwningSame DEF RunResume, RunRequest, RunMark, flags, lanes
  <1>2. CASE RunRoute
    <2>1. Head(owed).who \in Forks /\ UNCHANGED status
      BY <1>2, ControlTypes, HeadCallback, CallbackShape DEF RunRoute, schedule
    <2>2. Route(Head(owed).who) \/ UNCHANGED <<fork, failed, cancelled>>
      BY <1>2 DEF RunRoute, lanes
    <2> QED
      BY <2>1, <2>2, OwningRoute, OwningSame
  <1>3. CASE RunCancel
    <2> DEFINE w == Head(owed).who
    <2>1. w \in Forks /\ UNCHANGED status
      BY <1>3, ControlTypes, HeadCallback, CallbackShape DEF RunCancel, schedule
    <2>2. \/ Route(w)
          \/ /\ fork' = [fork EXCEPT ![w].task = "cancelled", ![w].lane = "dropped"]
             /\ ForkSettled(w, "cancelled", Tail(owed))
          \/ fork' = [fork EXCEPT ![w].lane = "stopping"] /\ UNCHANGED <<failed, cancelled>>
          \/ UNCHANGED <<fork, failed, cancelled>>
      BY <1>3 DEF RunCancel, lanes
    <2> HIDE DEF w
    <2>3. fork \in [Forks -> ForkRecords]
      BY ControlTypes
    <2>4. CASE /\ fork' = [fork EXCEPT ![w].task = "cancelled", ![w].lane = "dropped"]
               /\ ForkSettled(w, "cancelled", Tail(owed))
      <3>1. fork'[w].task = "cancelled" /\ \A v \in Forks \ {w} : fork'[v] = fork[v]
        BY <2>1, <2>3, <2>4 DEF ForkRecords
      <3> QED
        BY <2>1, <2>4, <3>1, OwningForkSettled
    <2>5. CASE fork' = [fork EXCEPT ![w].lane = "stopping"] /\ UNCHANGED <<failed, cancelled>>
      <3>1. \A v \in Forks : fork'[v].task = fork[v].task
        BY <2>3, <2>5 DEF ForkRecords
      <3> QED
        BY <2>1, <2>5, <3>1 DEF Owning
    <2> QED
      BY <2>1, <2>2, <2>4, <2>5, OwningRoute, OwningSame
  <1> QED
    BY <1>1, <1>2, <1>3 DEF RunCallback

\* A child that ends in failure makes the scope failed and cancelled.
LEMMA OwningFinish ==
    ASSUME TypeOK, NEW t \in Tasks, NEW st, Finish(t, st)
    PROVE  Owning
  <1>1. /\ status' = [status EXCEPT ![t] = st] /\ UNCHANGED fork
        /\ failed' = (failed \/ st = "failed") /\ cancelled' = (cancelled \/ st = "failed")
    BY DEF Finish, SettleChild, lanes
  <1> QED
    BY <1>1 DEF Owning, TypeOK, ScheduleOK

\* deadlinePassed never takes a cancellation back.
LEMMA DeadlineKeeps == DeadlinePassed => (cancelled => cancelled')
  BY DEF DeadlinePassed

\* Who waits for a worker task, and where its lane is, say nothing of its state.
LEMMA ForkKeepsTask ==
    ASSUME TypeOK, NEW w, NEW a, NEW v \in Forks
    PROVE  /\ [fork EXCEPT ![w].waiter = a][v].task = fork[v].task
           /\ [fork EXCEPT ![w].lane = a][v].task = fork[v].task
  <1>1. fork \in [Forks -> ForkRecords]
    BY ControlTypes
  <1>2. CASE v = w
    BY <1>1, <1>2 DEF ForkRecords
  <1>3. CASE v # w
    BY <1>1, <1>3
  <1> QED
    BY <1>2, <1>3

\* No step of a child lets a failure go unowned.
LEMMA OwningTask ==
    ASSUME TypeOK, NEW t \in Tasks, TaskStep(t)
    PROVE  Owning
  <1>1. CASE Enter(t)
    <2>1. \/ Finish(t, "cancelled")
          \/ UNCHANGED <<status, failed, fork, cancelled>>
      BY <1>1 DEF Enter, flags, lanes
    <2> QED
      BY <2>1, OwningFinish, OwningSame
  <1>2. CASE WakeCancelled(t)
    <2>1. \A v \in Forks : fork'[v].task = fork[v].task
      BY <1>2, ControlTypes DEF WakeCancelled, ForkRecords
    <2> QED
      BY <1>2, <2>1 DEF WakeCancelled, flags, Owning
  <1>3. CASE WakeEarly(t) \/ WakeReady(t) \/ WakeLender(t) \/ WakeDrained(t) \/ Catch(t)
    BY <1>3, OwningSame DEF WakeEarly, WakeReady, WakeLender, WakeDrained, Catch,
                            schedule, flags, lanes
  <1>4. CASE BodyReturns(t) \/ BodyFails(t) \/ Unwinds(t)
    BY <1>4, OwningFinish DEF BodyReturns, BodyFails, Unwinds
  <1>5. CASE ParkExternally(t) \/ (\E d \in Deliberate : DrainNested(t, d)) \/ AwaitReturns(t)
    BY <1>5, OwningSame DEF ParkExternally, DrainNested, AwaitReturns, schedule, flags, lanes
  <1>6. CASE Checkpoint(t) \/ CancelScope(t)
    BY <1>6, OwningSame, DeadlineKeeps DEF Checkpoint, CancelScope, CancelImpl, schedule, lanes
  <1>7. CASE AwaitForkReturns(t)
    <2>1. cancelled => cancelled'
      BY <1>7, DeadlineKeeps DEF AwaitForkReturns
    <2>2. UNCHANGED <<status, failed>>
      BY <1>7 DEF AwaitForkReturns
    <2>3. \A v \in Forks : fork'[v].task = fork[v].task
      <3>1. \/ \E w : fork' = [fork EXCEPT ![w].waiter = t]
            \/ fork' = fork
        BY <1>7 DEF AwaitForkReturns
      <3>2. ASSUME NEW w, fork' = [fork EXCEPT ![w].waiter = t], NEW v \in Forks
            PROVE  fork'[v].task = fork[v].task
        BY <3>2, ForkKeepsTask
      <3> QED
        BY <3>1, <3>2
    <2> QED
      BY <2>1, <2>2, <2>3 DEF Owning
  <1>8. CASE \E u \in Tasks : Spawn(t, u)
    <2> PICK u \in Tasks : Spawn(t, u)
      BY <1>8
    <2>1. /\ UNCHANGED <<failed, cancelled, fork>>
          /\ \/ status' = [status EXCEPT ![u] = "refused"]
             \/ status' = [status EXCEPT ![u] = "queued"]
      BY DEF Spawn, Register, RefuseBody, flags, lanes
    <2> QED
      BY <2>1, OwningStatus
  <1>9. CASE \E u \in Tasks : Await(t, u)
    BY <1>9, OwningSame DEF Await, schedule, flags, lanes
  <1>10. CASE \E u \in Tasks : CancelTask(t, u)
    <2> PICK u \in Tasks : CancelTask(t, u)
      BY <1>10
    <2>1. /\ UNCHANGED <<failed, cancelled, fork>>
          /\ status' = status \/ status' = [status EXCEPT ![u] = "cancelled"]
      BY DEF CancelTask, CancelChild, SettleChild, flags, lanes
    <2> QED
      BY <2>1, OwningStatus, OwningSame
  <1>11. CASE \E w \in Forks : Work(t, w)
    <2> PICK w \in Forks : Work(t, w)
      BY <1>11
    <2>1. UNCHANGED <<status, failed, cancelled>>
      BY DEF Work, flags
    <2>2. \A v \in Forks : fork'[v].task = fork[v].task \/ fork'[v].task = "queued"
      <3>1. \/ fork' = fork
            \/ fork' = [fork EXCEPT ![w] = [task |-> "queued", lane |-> "queued", end |-> "none",
                                          by |-> t, waiter |-> NoOne]]
        BY DEF Work, Submit, lanes
      <3>2. fork \in [Forks -> ForkRecords]
        BY ControlTypes
      <3> QED
        BY <3>1, <3>2
    <2> QED
      BY <2>1, <2>2 DEF Owning
  <1>12. CASE \E w \in Forks : AwaitFork(t, w) \/ CancelFork(t, w)
    BY <1>12, OwningSame DEF AwaitFork, CancelFork, schedule, flags, lanes
  <1> QED
    BY <1>1, <1>2, <1>3, <1>4, <1>5, <1>6, <1>7, <1>8, <1>9, <1>10, <1>11, <1>12 DEF TaskStep

\* No step of the block lets a failure go unowned, or forgets one.
LEMMA OwningBlock ==
    ASSUME TypeOK, BlockStep
    PROVE  Owning
  <1>1. CASE \E u \in Tasks : BlockSpawn(u)
    <2> PICK u \in Tasks : BlockSpawn(u)
      BY <1>1
    <2>1. /\ UNCHANGED <<failed, cancelled, fork>>
          /\ \/ status' = [status EXCEPT ![u] = "refused"]
             \/ status' = [status EXCEPT ![u] = "admitting"]
      BY DEF BlockSpawn, RefuseBody, flags, lanes
    <2> QED
      BY <2>1, OwningStatus
  <1>2. CASE \E u \in Tasks : BlockCancelTask(u)
    <2> PICK u \in Tasks : BlockCancelTask(u)
      BY <1>2
    <2>1. /\ UNCHANGED <<failed, cancelled, fork>>
          /\ status' = status \/ status' = [status EXCEPT ![u] = "cancelled"]
      BY DEF BlockCancelTask, CancelChild, SettleChild, flags, lanes
    <2> QED
      BY <2>1, OwningStatus, OwningSame
  <1>3. CASE \E w \in Forks : BlockWork(w)
    <2> PICK w \in Forks : BlockWork(w)
      BY <1>3
    <2>1. UNCHANGED <<status, failed, cancelled>>
      BY DEF BlockWork, schedule, flags
    <2>2. fork' = fork \/ fork' = [fork EXCEPT ![w].task = "admitting"]
      BY DEF BlockWork
    <2>3. \A v \in Forks : fork'[v].task = fork[v].task \/ fork'[v].task = "admitting"
      BY <2>2, ControlTypes DEF ForkRecords
    <2> QED
      BY <2>1, <2>3 DEF Owning
  <1>4. CASE \/ \E u \in Tasks : BlockAwait(u)
             \/ \E w \in Forks : BlockAwaitFork(w) \/ BlockCancelFork(w)
             \/ BlockParks \/ BlockCloses \/ SlotWanted
    BY <1>4, OwningSame DEF BlockAwait, BlockAwaitFork, BlockCancelFork, BlockParks, BlockCloses,
                            SlotWanted, schedule, flags, lanes
  <1>5. CASE BlockCancelScope \/ BlockCheckpoint
    BY <1>5, OwningSame, DeadlineKeeps DEF BlockCancelScope, BlockCheckpoint, CancelImpl,
                                           schedule, lanes
  <1>6. CASE SlotTaken
    <2>1. UNCHANGED <<failed, cancelled>>
      BY <1>6 DEF SlotTaken, flags
    <2>2. \A u \in Tasks : status'[u] = status[u] \/ status'[u] \in {"queued", "refused"}
      <3>1. \/ status' = status
            \/ status' = [status EXCEPT ![block.on] = "queued"]
            \/ status' = [status EXCEPT ![block.on] = "refused"]
        BY <1>6 DEF SlotTaken, Register, BlockRefused, RefuseBody
      <3> QED
        BY <3>1 DEF TypeOK, ScheduleOK
    <2>3. \A v \in Forks : fork'[v].task = fork[v].task \/ fork'[v].task \in {"queued", "refused"}
      <3>1. \/ fork' = fork
            \/ fork' = [fork EXCEPT ![block.on].task = "refused"]
            \/ fork' = [fork EXCEPT ![block.on] = [task |-> "queued", lane |-> "queued",
                                                 end |-> "none", by |-> Block, waiter |-> NoOne]]
        BY <1>6 DEF SlotTaken, Submit, BlockRefused, lanes
      <3> QED
        BY <3>1, ControlTypes DEF ForkRecords
    <2> QED
      BY <2>1, <2>2, <2>3 DEF Owning
  <1>7. CASE PumpReturns \/ PumpPass \/ PumpParks \/ PumpDefers \/ DrivePass
             \/ DriveParks \/ DriveLeaves
    BY <1>7, OwningSame, DeadlineKeeps DEF PumpReturns, PumpPass, PumpParks, PumpDefers, DrivePass,
                                           DriveParks, DriveLeaves, schedule, flags, lanes
  <1>8. CASE PumpResumes \/ DriveResumes
    <2>1. /\ UNCHANGED <<failed, cancelled, fork>>
          /\ status' = [status EXCEPT ![Head(queue)] = "running"]
      BY <1>8 DEF PumpResumes, DriveResumes, ResumeChild, flags, lanes
    <2> QED
      BY <2>1, OwningStatus
  <1>9. CASE DriveRaises
    <2>1. UNCHANGED <<failed, cancelled>>
      BY <1>9 DEF DriveRaises, flags
    <2>2. \A u \in Tasks : status'[u] = status[u] \/ status'[u] = "refused"
      <3>1. status' = status \/ status' = [status EXCEPT ![block.on] = "refused"]
        BY <1>9 DEF DriveRaises, Abandon, RefuseBody
      <3> QED
        BY <3>1 DEF TypeOK, ScheduleOK
    <2>3. \A v \in Forks : fork'[v].task = fork[v].task \/ fork'[v].task = "refused"
      <3>1. \A v \in Forks : DOMAIN fork[v] = {"task", "lane", "end", "by", "waiter"}
        BY ControlTypes DEF ForkRecords
      <3>2. fork' = [w \in Forks |->
                       [fork[w] EXCEPT !.waiter = IF @ = Block THEN NoOne ELSE @,
                                       !.task = IF block.op = "work" /\ block.on = w
                                                THEN "refused" ELSE @]]
        BY <1>9 DEF DriveRaises, Abandon
      <3> QED
        BY <3>1, <3>2
    <2> QED
      BY <2>1, <2>2, <2>3 DEF Owning
  <1>10. CASE ReplyAwaited
    <2>1. \A v \in Forks : fork'[v].task = fork[v].task
      BY <1>10, ControlTypes DEF ReplyAwaited, ForkRecords
    <2> QED
      BY <1>10, <2>1 DEF ReplyAwaited, schedule, flags, Owning
  <1>11. CASE ReplyTaken \/ WorkersDrain \/ ScopeCloses
    BY <1>11, OwningSame, DeadlineKeeps DEF ReplyTaken, WorkersDrain, ScopeCloses, schedule,
                                            flags, lanes
  <1> QED
    BY <1>1, <1>2, <1>3, <1>4, <1>5, <1>6, <1>7, <1>8, <1>9, <1>10, <1>11 DEF BlockStep

\* Nor does the host, a lane or the clock.
LEMMA OwningRest ==
    ASSUME TypeOK, HostStep \/ (\E w \in Forks : LaneStep(w)) \/ ClockPasses
    PROVE  Owning
  <1>1. CASE HostStep \/ ClockPasses
    BY <1>1, OwningSame DEF HostStep, HostResumes, HostArms, BlockReady, TimerFires, NextTurn,
                            ExternalReady, RouteReply, ClockPasses, schedule, flags, lanes
  <1>2. CASE \E w \in Forks : LaneStep(w)
    <2> PICK w \in Forks : LaneStep(w)
      BY <1>2
    <2>1. UNCHANGED <<status, failed, cancelled>>
      BY DEF LaneStep, LaneStarts, LaneFinishes, LaneReplies, schedule, flags
    <2>2. \/ \E ln : fork' = [fork EXCEPT ![w].lane = ln]
          \/ \E ln, en : fork' = [fork EXCEPT ![w].lane = ln, ![w].end = en]
      BY DEF LaneStep, LaneStarts, LaneFinishes, LaneReplies
    <2>3. \A v \in Forks : fork'[v].task = fork[v].task
      <3>1. ASSUME NEW ln, fork' = [fork EXCEPT ![w].lane = ln], NEW v \in Forks
            PROVE  fork'[v].task = fork[v].task
        BY <3>1, ForkKeepsTask
      <3>2. ASSUME NEW ln, NEW en, fork' = [fork EXCEPT ![w].lane = ln, ![w].end = en],
                   NEW v \in Forks
            PROVE  fork'[v].task = fork[v].task
        <4>1. fork \in [Forks -> ForkRecords]
          BY ControlTypes
        <4>2. CASE v = w
          BY <3>2, <4>1, <4>2 DEF ForkRecords
        <4>3. CASE v # w
          BY <3>2, <4>1, <4>3
        <4> QED
          BY <4>2, <4>3
      <3>3. CASE \E ln : fork' = [fork EXCEPT ![w].lane = ln]
        BY <3>1, <3>3
      <3>4. CASE \E ln, en : fork' = [fork EXCEPT ![w].lane = ln, ![w].end = en]
        BY <3>2, <3>4
      <3> QED
        BY <2>2, <3>3, <3>4
    <2> QED
      BY <2>1, <2>3 DEF Owning
  <1> QED
    BY <1>1, <1>2

\* Fail-fast ownership, for every scope: from the moment a child or a worker
\* task has failed, awaited or not, the scope is failed and cancelled.
THEOREM FailureIsOwned == Spec => []FailureOwned
  <1>1. Init => FailureOwned
    BY DEF Init, FailureOwned
  <1>2. TypeOK /\ FailureOwned /\ [Next]_vars => FailureOwned'
    <2> SUFFICES ASSUME TypeOK, FailureOwned, [Next]_vars PROVE FailureOwned'
      OBVIOUS
    <2>1. CASE Next
      BY <2>1, OwningCallback, OwningTask, OwningBlock, OwningRest, OwningSuffices DEF Next
    <2>2. CASE UNCHANGED vars
      BY <2>2, OwningSame, OwningSuffices DEF vars, schedule, flags, lanes
    <2> QED
      BY <2>1, <2>2
  <1> QED
    BY <1>1, <1>2, TypeCorrect, PTL DEF Spec

-----------------------------------------------------------------------------
(***************************************************************************)
(* What becomes of the children of a TaskScope, for every set of children  *)
(* and worker tasks, every limit, and with and without a deadline, a host  *)
(* and bodies that catch: they are listed exactly while they live, settle  *)
(* once, and are never called once they were asked to stop.                *)
(*                                                                         *)
(* Kinds says once what the steps of TaskScope can do to the children; the *)
(* invariant LifeInv follows from it kind by kind.                         *)
(***************************************************************************)

(* Sequences of distinct members *)
\* A sequence without its member at k: what is where.
LEMMA CutAt ==
    ASSUME NEW S, NEW s \in Seq(S), NEW k \in 1..Len(s)
    PROVE  LET c == SubSeq(s, 1, k - 1) \o SubSeq(s, k + 1, Len(s)) IN
           /\ c \in Seq(S) /\ Len(c) = Len(s) - 1
           /\ \A i \in 1..(k - 1) : c[i] = s[i]
           /\ \A i \in k..(Len(s) - 1) : c[i] = s[i + 1]
  <1> DEFINE a == SubSeq(s, 1, k - 1)
             b == SubSeq(s, k + 1, Len(s))
  <1>1. /\ a \in Seq(S) /\ Len(a) = k - 1 /\ \A i \in 1..(k - 1) : a[i] = s[i]
    OBVIOUS
  <1>2. /\ b \in Seq(S) /\ Len(b) = Len(s) - k /\ \A i \in 1..(Len(s) - k) : b[i] = s[k + i]
    OBVIOUS
  <1> HIDE DEF a, b
  <1>9. a \in Seq(S) /\ b \in Seq(S)
    BY <1>1, <1>2
  <1>3. a \o b \in Seq(S) /\ Len(a \o b) = Len(a) + Len(b)
    BY <1>9
  <1>8. Len(a \o b) = Len(s) - 1 /\ Len(s) \in Nat
    BY <1>1, <1>2, <1>3
  <1>6. \A i \in 1..(k - 1) : (a \o b)[i] = a[i]
    BY <1>1, <1>2
  <1>7. \A i \in k..(Len(s) - 1) : (a \o b)[i] = b[i - (k - 1)]
    BY <1>1, <1>2
  <1>4. \A i \in k..(Len(s) - 1) : b[i - (k - 1)] = s[i + 1]
    <2> TAKE i \in k..(Len(s) - 1)
    <2>1. i - (k - 1) \in 1..(Len(s) - k) /\ k + (i - (k - 1)) = i + 1
      OBVIOUS
    <2> QED
      BY <1>2, <2>1
  <1>5. a \o b = SubSeq(s, 1, k - 1) \o SubSeq(s, k + 1, Len(s))
    BY DEF a, b
  <1> QED
    BY <1>1, <1>3, <1>4, <1>5, <1>6, <1>7, <1>8

\* What is left when one of its members leaves a sequence of distinct ones.
LEMMA WithoutFacts ==
    ASSUME NEW S, NEW s \in Seq(S), NEW x, Distinct(s)
    PROVE  /\ Without(s, x) \in Seq(S \ {x}) /\ Distinct(Without(s, x))
           /\ \A y : y # x => (Contains(Without(s, x), y) <=> Contains(s, y))
           /\ ~Contains(Without(s, x), x)
           /\ Len(Without(s, x)) = IF Contains(s, x) THEN Len(s) - 1 ELSE Len(s)
  <1>1. CASE Contains(s, x)
    <2> DEFINE k == CHOOSE i \in 1..Len(s) : s[i] = x
               c == Without(s, x)
    <2>1. k \in 1..Len(s) /\ s[k] = x
      BY <1>1 DEF Contains
    <2>2. c = SubSeq(s, 1, k - 1) \o SubSeq(s, k + 1, Len(s))
      BY <1>1 DEF Without, RemoveAt, Contains
    <2> HIDE DEF k, c
    <2>3. /\ c \in Seq(S) /\ Len(c) = Len(s) - 1
          /\ \A i \in 1..(k - 1) : c[i] = s[i]
          /\ \A i \in k..(Len(s) - 1) : c[i] = s[i + 1]
      BY <2>1, <2>2, CutAt
    <2>4. \A i \in 1..Len(c) : \E j \in 1..Len(s) :
             c[i] = s[j] /\ j # k /\ j = IF i < k THEN i ELSE i + 1
      <3> TAKE i \in 1..Len(c)
      <3>1. CASE i < k
        <4>1. i \in 1..Len(s) /\ i \in 1..(k - 1) /\ i # k
          BY <3>1, <2>1, <2>3
        <4> QED
          BY <3>1, <4>1, <2>3
      <3>2. CASE ~(i < k)
        <4>1. i + 1 \in 1..Len(s) /\ i \in k..(Len(s) - 1) /\ i + 1 # k
          BY <3>2, <2>1, <2>3
        <4> QED
          BY <3>2, <4>1, <2>3
      <3> QED
        BY <3>1, <3>2
    <2>5. \A i \in 1..Len(c) : c[i] \in S \ {x}
      BY <2>1, <2>4 DEF Distinct
    <2>6. c \in Seq(S \ {x})
      BY <2>3, <2>5
    <2>7. Distinct(c)
      BY <2>1, <2>3, <2>4 DEF Distinct
    <2>8. ASSUME NEW y, y # x
          PROVE  Contains(c, y) <=> Contains(s, y)
      <3>1. Contains(c, y) => Contains(s, y)
        BY <2>4 DEF Contains
      <3>2. ASSUME NEW j \in 1..Len(s), s[j] = y
            PROVE  Contains(c, y)
        <4>1. j # k
          BY <2>1, <2>8, <3>2
        <4>2. CASE j < k
          BY <3>2, <4>2, <2>1, <2>3 DEF Contains
        <4>3. CASE j > k
          <5>1. j - 1 \in k..(Len(s) - 1) /\ j - 1 \in 1..Len(c) /\ (j - 1) + 1 = j
            BY <4>3, <2>1, <2>3
          <5>2. c[j - 1] = y
            BY <5>1, <3>2, <2>3
          <5> QED
            BY <5>1, <5>2 DEF Contains
        <4> QED
          BY <4>1, <4>2, <4>3, <2>1
      <3> QED
        BY <3>1, <3>2 DEF Contains
    <2>9. ~Contains(c, x)
      BY <2>5 DEF Contains
    <2> QED
      BY <1>1, <2>3, <2>6, <2>7, <2>8, <2>9 DEF c
  <1>2. CASE ~Contains(s, x)
    <2>1. Without(s, x) = s
      BY <1>2 DEF Without, Contains
    <2>2. \A i \in 1..Len(s) : s[i] \in S \ {x}
      BY <1>2 DEF Contains
    <2>3. s \in Seq(S \ {x})
      BY <2>2
    <2> QED
      BY <1>2, <2>1, <2>3
  <1> QED
    BY <1>1, <1>2

\* What joins a sequence at its end.
LEMMA AppendFacts ==
    ASSUME NEW S, NEW s \in Seq(S), NEW x \in S
    PROVE  /\ Append(s, x) \in Seq(S) /\ Len(Append(s, x)) = Len(s) + 1
           /\ \A y : Contains(Append(s, x), y) <=> Contains(s, y) \/ y = x
           /\ Distinct(s) /\ ~Contains(s, x) => Distinct(Append(s, x))
  <1> DEFINE a == Append(s, x)
  <1>1. /\ a \in Seq(S) /\ Len(a) = Len(s) + 1 /\ a[Len(s) + 1] = x
        /\ \A i \in 1..Len(s) : a[i] = s[i]
    OBVIOUS
  <1> HIDE DEF a
  <1>2. 1..Len(a) = 1..Len(s) \union {Len(s) + 1}
    BY <1>1
  <1>3. \A y : Contains(a, y) <=> Contains(s, y) \/ y = x
    BY <1>1, <1>2 DEF Contains
  <1>4. ASSUME Distinct(s), ~Contains(s, x) PROVE Distinct(a)
    BY <1>1, <1>2, <1>4 DEF Distinct, Contains
  <1> QED
    BY <1>1, <1>3, <1>4 DEF a

\* What the first member leaves behind.
LEMMA TailFacts ==
    ASSUME NEW S, NEW s \in Seq(S), s # <<>>, Distinct(s)
    PROVE  /\ Tail(s) \in Seq(S) /\ Distinct(Tail(s)) /\ Head(s) \in S
           /\ \A y : Contains(s, y) <=> Contains(Tail(s), y) \/ y = Head(s)
           /\ ~Contains(Tail(s), Head(s))
  <1> DEFINE u == Tail(s)
  <1>1. /\ u \in Seq(S) /\ Len(u) = Len(s) - 1 /\ Len(s) > 0 /\ Head(s) = s[1] /\ s[1] \in S
        /\ \A i \in 1..Len(u) : u[i] = s[i + 1]
    OBVIOUS
  <1> HIDE DEF u
  <1>2. \A i \in 1..Len(u) : i + 1 \in 1..Len(s)
    BY <1>1
  <1>3. Distinct(u)
    BY <1>1, <1>2 DEF Distinct
  <1>4. ~Contains(u, Head(s))
    BY <1>1, <1>2 DEF Distinct, Contains
  <1>5. ASSUME NEW y PROVE Contains(s, y) <=> Contains(u, y) \/ y = Head(s)
    <2>1. Contains(u, y) \/ y = Head(s) => Contains(s, y)
      BY <1>1, <1>2 DEF Contains
    <2>2. ASSUME NEW i \in 1..Len(s), s[i] = y, i # 1 PROVE Contains(u, y)
      <3>1. i - 1 \in 1..Len(u) /\ (i - 1) + 1 = i
        BY <2>2, <1>1
      <3> QED
        BY <2>2, <3>1, <1>1 DEF Contains
    <2> QED
      BY <2>1, <2>2, <1>1 DEF Contains
  <1> QED
    BY <1>1, <1>3, <1>4, <1>5 DEF u
-----------------------------------------------------------------------------
(* The life of a child *)

\* Where a body that was called and has not ended can be.
Inside == Waits \union {"body", "awaited", "forked", "raisedCancel", "raisedError"}

\* The body handed over with a child, and where its coroutine is, go with the
\* child's status.
Life(t) ==
    \/ status[t] = "new" /\ body[t] = "none" /\ act[t].at = "new"
    \/ status[t] \in {"admitting", "queued"} /\ body[t] = "held" /\ act[t].at = "new"
    \/ status[t] = "refused" /\ body[t] = "released" /\ act[t].at = "new"
    \/ status[t] = "running" /\ body[t] = "held" /\ act[t].at = "new"
    \/ status[t] = "running" /\ body[t] = "called" /\ act[t].at \in Inside
    \/ Ended(t) /\ body[t] \in {"called", "released"} /\ act[t].at = "over"

Lives == \A t \in Tasks : Life(t)

\* Only a child that runs has control.
CpuLive == cpu \in Tasks => status[cpu] = "running"

\* The child and the worker task the block is starting.
Starting ==
    /\ block.at \in {"run", "done"} => block.op = "none"
    /\ \A t \in Tasks : status[t] = "admitting" <=> (block.op = "spawn" /\ block.on = t)
    /\ \A w \in Forks : fork[w].task = "admitting" <=> (block.op = "work" /\ block.on = w)

-----------------------------------------------------------------------------
(* What a step does to the children *)

\* Bodies move about inside, and nowhere else.
ActMoves ==
    \A u \in Tasks : act'[u].at = act[u].at \/ (act[u].at \in Inside /\ act'[u].at \in Inside)

\* Nobody is started or settled; a callback may make a child runnable.
Stays ==
    /\ UNCHANGED <<status, list, body>> /\ ActMoves /\ cpu' \in {cpu, Block, Host}
    /\ \/ queue' = queue
       \/ /\ owed # <<>> /\ Head(owed).do \in {"resume", "request", "mark"}
          /\ Head(owed).who \in Tasks /\ MarkRunnable(Head(owed).who)

\* A child is registered, listed and about to be made runnable.
Registers(u) ==
    /\ status[u] \in {"new", "admitting"} /\ status' = [status EXCEPT ![u] = "queued"]
    /\ list' = Append(list, u) /\ body' = [body EXCEPT ![u] = "held"]
    /\ ActMoves /\ cpu' \in {cpu, Block} /\ queue' = queue

\* A body is dropped: the scope does not take the child.
Refuses(u) ==
    /\ status[u] \in {"new", "admitting"} /\ status' = [status EXCEPT ![u] = "refused"]
    /\ body' = [body EXCEPT ![u] = "released"]
    /\ ActMoves /\ cpu' = cpu /\ UNCHANGED <<queue, list>>

\* The block holds a body while it looks for a slot.
Admits(u) ==
    /\ status[u] = "new" /\ status' = [status EXCEPT ![u] = "admitting"]
    /\ body' = [body EXCEPT ![u] = "held"]
    /\ UNCHANGED <<queue, list, act, cpu>>

\* A child settles: the one that runs, or one that never ran.
Settles(u, st) ==
    /\ st \in Ends /\ Live(u) /\ status' = [status EXCEPT ![u] = st]
    /\ queue' = Without(queue, u) /\ list' = Without(list, u)
    /\ \/ act[u].at \in Inside /\ body' = body
       \/ act[u].at = "new" /\ body' = [body EXCEPT ![u] = "released"]
    /\ act' = [act EXCEPT ![u].at = "over"]
    /\ cpu' \in {cpu, Block} /\ cpu' # u

\* A child that was not asked to stop calls its body.
Enters(u) ==
    /\ status[u] = "running" /\ act[u].at = "new" /\ cpu = u /\ u \notin requested
    /\ body' = [body EXCEPT ![u] = "called"] /\ act' = [act EXCEPT ![u].at = "body"]
    /\ UNCHANGED <<status, queue, list, cpu>>

\* The first of the queue gets control.
Resumes ==
    /\ queue # <<>> /\ cpu' = Head(queue)
    /\ status' = [status EXCEPT ![Head(queue)] = "running"]
    /\ queue' = Tail(queue) /\ UNCHANGED <<list, body, act>>

\* There is no other kind of step.
Kinds ==
    \/ Stays \/ Resumes
    \/ \E u \in Tasks : \/ Registers(u) \/ Refuses(u) \/ Admits(u) \/ Enters(u)
                        \/ \E st \in Ends : Settles(u, st)

\* A step that leaves the children alone.
LEMMA StaysSame ==
    ASSUME UNCHANGED <<schedule, act>>, cpu' \in {cpu, Block, Host}
    PROVE  Stays
  BY DEF Stays, ActMoves, schedule

\* A child inside its body moves within it.
LEMMA MovesInside ==
    ASSUME TypeOK, NEW t \in Tasks, act[t].at \in Inside,
           \/ \E p \in Inside : \E n : act' = [act EXCEPT ![t] = Parked(p, n)]
           \/ \E p \in Inside : \E n, r : act' = [act EXCEPT ![t] = [at |-> p, on |-> n, ready |-> r]]
           \/ \E p \in Inside : act' = [act EXCEPT ![t].at = p]
           \/ \E p \in Inside : act' = [act EXCEPT ![t].ready = FALSE, ![t].at = p]
           \/ \E r : act' = [act EXCEPT ![t].ready = r]
           \/ act' = act
    PROVE  ActMoves
  <1> act \in [Tasks -> ActRecords]
    BY DEF TypeOK, ControlOK, ActRecords
  <1>1. ASSUME NEW p \in Inside, NEW n, act' = [act EXCEPT ![t] = Parked(p, n)] PROVE ActMoves
    BY <1>1 DEF ActMoves, Parked
  <1>2. ASSUME NEW p \in Inside, NEW n, NEW r,
               act' = [act EXCEPT ![t] = [at |-> p, on |-> n, ready |-> r]] PROVE ActMoves
    BY <1>2 DEF ActMoves
  <1>3. ASSUME NEW p \in Inside, act' = [act EXCEPT ![t].at = p] PROVE ActMoves
    <2>1. act'[t].at = p /\ \A u \in Tasks \ {t} : act'[u] = act[u]
      BY <1>3 DEF ActRecords
    <2> QED
      BY <2>1 DEF ActMoves
  <1>4. ASSUME NEW p \in Inside, act' = [act EXCEPT ![t].ready = FALSE, ![t].at = p]
        PROVE ActMoves
    <2>1. act'[t].at = p /\ \A u \in Tasks \ {t} : act'[u] = act[u]
      BY <1>4 DEF ActRecords
    <2> QED
      BY <2>1 DEF ActMoves
  <1>5. ASSUME NEW r, act' = [act EXCEPT ![t].ready = r] PROVE ActMoves
    <2>1. act'[t].at = act[t].at /\ \A u \in Tasks \ {t} : act'[u] = act[u]
      <3>1. act[t] \in ActRecords /\ act'[t] = [act[t] EXCEPT !.ready = r]
        BY <1>5
      <3>2. act'[t].at = act[t].at
        BY <3>1 DEF ActRecords
      <3> QED
        BY <1>5, <3>2
    <2> QED
      BY <2>1 DEF ActMoves
  <1>6. ASSUME act' = act PROVE ActMoves
    BY <1>6 DEF ActMoves
  <1> QED
    BY <1>1, <1>2, <1>3, <1>4, <1>5, <1>6

\* A resumed wait is marked as over, and its body stays where it is.
LEMMA ReadyMoves ==
    ASSUME TypeOK, NEW t \in Tasks, act' = [act EXCEPT ![t].ready = TRUE]
    PROVE  ActMoves
  <1>1. act \in [Tasks -> ActRecords]
    BY DEF TypeOK, ControlOK, ActRecords
  <1>2. act'[t].at = act[t].at /\ \A u \in Tasks \ {t} : act'[u] = act[u]
    BY <1>1 DEF ActRecords
  <1> QED
    BY <1>2 DEF ActMoves

\* Callbacks start and settle no child.
LEMMA KindsCallback ==
    ASSUME TypeOK, RunCallback
    PROVE  Stays
  <1>1. CASE RunResume
    <2>1. Head(owed).who \in Tasks \union {Block}
      BY <1>1, ControlTypes, HeadCallback, CallbackShape DEF RunResume
    <2>2. CASE Head(owed).who = Block
      BY <1>1, <2>2 DEF RunResume, Stays, ActMoves
    <2>3. CASE Head(owed).who # Block
      <3>1. Head(owed).who \in Tasks
        BY <2>1, <2>3
      <3>2. ActMoves
        BY <1>1, <2>3, <3>1, ReadyMoves DEF RunResume
      <3> QED
        BY <1>1, <2>3, <3>1, <3>2 DEF RunResume, Stays
    <2> QED
      BY <2>2, <2>3
  <1>2. CASE RunRequest \/ RunMark
    <2>1. Head(owed).who \in Tasks
      BY <1>2, ControlTypes, HeadCallback, CallbackShape DEF RunRequest, RunMark
    <2> QED
      BY <1>2, <2>1 DEF RunRequest, RunMark, Stays, ActMoves
  <1>3. CASE RunRoute \/ RunCancel
    BY <1>3, StaysSame DEF RunRoute, RunCancel
  <1> QED
    BY <1>1, <1>2, <1>3 DEF RunCallback

\* The end of a body, or of a child that was cancelled before it started.
LEMMA KindsFinish ==
    ASSUME TypeOK, NEW t \in Tasks, NEW st \in Ends, Finish(t, st), status[t] = "running",
           \/ act[t].at \in Inside /\ body' = body
           \/ act[t].at = "new" /\ body' = [body EXCEPT ![t] = "released"]
    PROVE  Settles(t, st)
  <1>1. Block # t
    BY TasksAssumption DEF Block
  <1> QED
    BY <1>1 DEF Finish, SettleChild, Settles, Live

\* A child settles before it ran, or is left to observe the request.
LEMMA KindsCancel ==
    ASSUME TypeOK, Lives, CpuLive, NEW u \in Tasks, CancelChild(u), cpu' = cpu
    PROVE  Stays \/ \E st \in Ends : Settles(u, st)
  <1>1. CASE u \notin requested /\ status[u] = "queued"
    <2>1. /\ body' = [body EXCEPT ![u] = "released"] /\ act' = [act EXCEPT ![u].at = "over"]
          /\ SettleChild(u, "cancelled", <<>>)
      BY <1>1 DEF CancelChild, Ended, Ends
    <2>2. Life(u)
      BY DEF Lives
    <2>3. act[u].at = "new"
      BY <1>1, <2>2 DEF Life, Ended, Ends
    <2>4. cpu' # u
      BY <1>1 DEF CpuLive
    <2> QED
      BY <1>1, <2>1, <2>3, <2>4 DEF Settles, SettleChild, Live, Ends
  <1>2. CASE ~(u \notin requested /\ status[u] = "queued")
    BY <1>2 DEF CancelChild, Stays, ActMoves
  <1> QED
    BY <1>1, <1>2

\* A body that runs is inside.
LEMMA RunsInside ==
    /\ Waits \subseteq Inside
    /\ {"body", "awaited", "forked", "raisedCancel", "raisedError"} \subseteq Inside
    /\ Raised \in Inside
  BY DEF Inside, Raised

\* What a child that runs does to the children.
LEMMA KindsTask ==
    ASSUME TypeOK, Lives, CpuLive, NEW t \in Tasks, TaskStep(t)
    PROVE  Kinds
  <1>1. ASSUME Runs(t)
        PROVE  status[t] = "running" /\ (act[t].at = "new" \/ act[t].at \in Inside)
    <2>1. status[t] = "running" /\ Life(t)
      BY <1>1 DEF Runs, CpuLive, Lives
    <2> QED
      BY <2>1 DEF Life, Ended, Ends
  <1>2. CASE Enter(t)
    <2>1. status[t] = "running" /\ act[t].at = "new" /\ cpu = t
      BY <1>1, <1>2 DEF Enter, Runs
    <2>2. CASE t \in requested
      <3>1. body' = [body EXCEPT ![t] = "released"] /\ Finish(t, "cancelled")
        BY <1>2, <2>2 DEF Enter
      <3> QED
        BY <2>1, <3>1, KindsFinish DEF Kinds, Ends
    <2>3. CASE t \notin requested
      BY <1>2, <2>1, <2>3 DEF Enter, Enters, Kinds
    <2> QED
      BY <2>2, <2>3
  <1>3. CASE BodyReturns(t) \/ BodyFails(t) \/ Unwinds(t)
    <2>1. status[t] = "running" /\ act[t].at \in Inside /\ body' = body
      BY <1>1, <1>3, RunsInside DEF BodyReturns, BodyFails, Unwinds
    <2>2. PICK st \in Ends : Finish(t, st)
      BY <1>3 DEF BodyReturns, BodyFails, Unwinds, Ends
    <2> QED
      BY <2>1, <2>2, KindsFinish DEF Kinds
  <1>4. CASE WakeCancelled(t) \/ WakeDrained(t) \/ AwaitReturns(t) \/ AwaitForkReturns(t)
    <2>1. act[t].at \in Inside
      BY <1>4, RunsInside DEF WakeCancelled, WakeDrained, AwaitReturns, AwaitForkReturns, Inside, Waits
    <2>2. \/ \E p \in Inside : \E n : act' = [act EXCEPT ![t] = Parked(p, n)]
          \/ \E p \in Inside : \E n, r : act' = [act EXCEPT ![t] = [at |-> p, on |-> n, ready |-> r]]
      <3>1. CASE WakeCancelled(t) \/ WakeDrained(t)
        BY <3>1, RunsInside DEF WakeCancelled, WakeDrained
      <3>2. CASE AwaitReturns(t)
        <4>1. \E p \in {Raised, "body", "raisedCancel", "raisedError"} : Raises(t, p)
          BY <3>2 DEF AwaitReturns
        <4> QED
          BY <4>1, RunsInside DEF Raises
      <3>3. CASE AwaitForkReturns(t)
        <4>1. \/ \E w : act' = [act EXCEPT ![t] = Parked("fork", w)]
              \/ \E p \in {Raised, "body", "raisedCancel", "raisedError"} : Raises(t, p)
          BY <3>3 DEF AwaitForkReturns
        <4>2. "fork" \in Inside
          BY DEF Inside, Waits
        <4> QED
          BY <4>1, <4>2, RunsInside DEF Raises
      <3> QED
        BY <1>4, <3>1, <3>2, <3>3
    <2>3. ActMoves
      BY <2>1, <2>2, MovesInside
    <2>4. UNCHANGED <<status, list, body, queue>> /\ cpu' \in {cpu, Block}
      BY <1>4 DEF WakeCancelled, WakeDrained, AwaitReturns, AwaitForkReturns
    <2> QED
      BY <2>3, <2>4 DEF Stays, Kinds
  <1>5. CASE WakeEarly(t) \/ CancelScope(t) \/ \E w \in Forks : CancelFork(t, w)
    BY <1>5, StaysSame DEF WakeEarly, CancelScope, CancelFork, Kinds
  <1>6. CASE WakeReady(t) \/ Catch(t) \/ WakeLender(t)
    <2>1. act[t].at \in Inside
      BY <1>6, RunsInside DEF WakeReady, Catch, WakeLender, Waits
    <2>2. \/ \E p \in Inside : act' = [act EXCEPT ![t].at = p]
          \/ \E p \in Inside : act' = [act EXCEPT ![t].ready = FALSE, ![t].at = p]
          \/ \E r : act' = [act EXCEPT ![t].ready = r]
          \/ \E p \in Inside : \E n, r : act' = [act EXCEPT ![t] = [at |-> p, on |-> n, ready |-> r]]
      <3>1. CASE WakeReady(t)
        <4>1. act \in [Tasks -> ActRecords]
          BY DEF TypeOK, ControlOK, ActRecords
        <4>2. act' = [act EXCEPT ![t].ready = FALSE,
                                 ![t].at = CASE @ = "ext" -> "body"
                                             [] @ = "await" -> "awaited"
                                             [] @ = "fork" -> "forked"]
          BY <3>1 DEF WakeReady
        <4>3. \E p \in {"body", "awaited", "forked"} :
                 act' = [act EXCEPT ![t].ready = FALSE, ![t].at = p]
          BY <3>1, <4>1, <4>2 DEF WakeReady, ActRecords
        <4> QED
          BY <4>3, RunsInside
      <3>2. CASE Catch(t)
        BY <3>2, RunsInside DEF Catch
      <3>3. CASE WakeLender(t)
        BY <3>3, RunsInside DEF WakeLender
      <3> QED
        BY <1>6, <3>1, <3>2, <3>3
    <2>3. ActMoves
      BY <2>1, <2>2, MovesInside
    <2>4. UNCHANGED <<status, list, body, queue>> /\ cpu' \in {cpu, Block}
      BY <1>6 DEF WakeReady, Catch, WakeLender, schedule
    <2> QED
      BY <2>3, <2>4 DEF Stays, Kinds
  <1>7. CASE \/ ParkExternally(t) \/ Checkpoint(t) \/ \E d \in Deliberate : DrainNested(t, d)
             \/ \E u \in Tasks : Await(t, u)
             \/ \E w \in Forks : Work(t, w) \/ AwaitFork(t, w)
    <2>1. act[t].at \in Inside
      BY <1>7, RunsInside DEF ParkExternally, Checkpoint, DrainNested, Await, Work, AwaitFork, Does
    <2>2. act' = act \/ \E p \in Inside : \E n : act' = [act EXCEPT ![t] = Parked(p, n)]
      BY <1>7, RunsInside DEF ParkExternally, Checkpoint, DrainNested, Await, Work, AwaitFork,
                              Raises, Lend, Inside, Waits
    <2>3. ActMoves
      BY <2>1, <2>2, MovesInside
    <2>4. UNCHANGED <<status, list, body, queue>> /\ cpu' \in {cpu, Block}
      BY <1>7 DEF ParkExternally, Checkpoint, DrainNested, Await, Work, AwaitFork, Lend, schedule
    <2> QED
      BY <2>3, <2>4 DEF Stays, Kinds
  <1>8. CASE \E u \in Tasks : Spawn(t, u)
    <2> PICK u \in Tasks : Spawn(t, u)
      BY <1>8
    <2>1. act[t].at \in Inside /\ status[u] = "new" /\ UNCHANGED queue
      BY RunsInside DEF Spawn, Does, NextTask
    <2>2. act' = act \/ \E p \in Inside : \E n : act' = [act EXCEPT ![t] = Parked(p, n)]
      BY RunsInside DEF Spawn, Raises, Lend, Inside, Waits
    <2>3. ActMoves
      BY <2>1, <2>2, MovesInside
    <2>4. CASE ScopeRaises
      BY <2>1, <2>3, <2>4 DEF Spawn, RefuseBody, Refuses, Kinds
    <2>5. CASE ~ScopeRaises
      BY <2>1, <2>3, <2>5 DEF Spawn, Register, Lend, Registers, Kinds
    <2> QED
      BY <2>4, <2>5
  <1>9. CASE \E u \in Tasks : CancelTask(t, u)
    BY <1>9, KindsCancel DEF CancelTask, Kinds
  <1> QED
    BY <1>2, <1>3, <1>4, <1>5, <1>6, <1>7, <1>8, <1>9 DEF TaskStep

\* What the block does to the children.
LEMMA KindsBlock ==
    ASSUME TypeOK, Lives, CpuLive, Starting, BlockStep
    PROVE  Kinds
  <1>1. CASE \E u \in Tasks : BlockSpawn(u)
    <2> PICK u \in Tasks : BlockSpawn(u)
      BY <1>1
    <2>1. status[u] = "new"
      BY DEF BlockSpawn, NextTask
    <2>2. CASE ScopeRaises
      BY <2>1, <2>2 DEF BlockSpawn, RefuseBody, Refuses, ActMoves, Kinds
    <2>3. CASE ~ScopeRaises
      BY <2>1, <2>3 DEF BlockSpawn, Admits, Kinds
    <2> QED
      BY <2>2, <2>3
  <1>2. CASE \E u \in Tasks : BlockCancelTask(u)
    BY <1>2, KindsCancel DEF BlockCancelTask, Kinds
  <1>3. CASE \/ \E u \in Tasks : BlockAwait(u)
             \/ \E w \in Forks : BlockWork(w) \/ BlockAwaitFork(w) \/ BlockCancelFork(w)
             \/ BlockParks \/ BlockCancelScope \/ BlockCheckpoint \/ BlockCloses \/ SlotWanted
    BY <1>3, StaysSame DEF BlockAwait, BlockWork, BlockAwaitFork, BlockCancelFork, BlockParks,
                           BlockCancelScope, BlockCheckpoint, BlockCloses, SlotWanted, Kinds
  <1>4. CASE SlotTaken
    <2>1. block.op \in {"spawn", "work"} /\ UNCHANGED <<queue, cpu, act>>
      BY <1>4 DEF SlotTaken, BlockRuns, TypeOK, BlockOK
    <2>2. CASE block.op = "spawn"
      <3>1. block.on \in Tasks /\ status[block.on] = "admitting"
        BY <2>2 DEF Starting, TypeOK, BlockOK
      <3>2. CASE ScopeRaises
        BY <1>4, <2>1, <2>2, <3>1, <3>2 DEF SlotTaken, BlockRefused, RefuseBody, Refuses, ActMoves, Kinds
      <3>3. CASE ~ScopeRaises
        BY <1>4, <2>1, <2>2, <3>1, <3>3 DEF SlotTaken, Register, Registers, ActMoves, Kinds
      <3> QED
        BY <3>2, <3>3
    <2>3. CASE block.op # "spawn"
      BY <1>4, <2>1, <2>3 DEF SlotTaken, BlockRefused, Stays, ActMoves, Kinds
    <2> QED
      BY <2>2, <2>3
  <1>5. CASE PumpReturns \/ PumpPass \/ PumpParks \/ PumpDefers \/ DrivePass \/ DriveParks
             \/ DriveLeaves \/ ReplyAwaited \/ ReplyTaken \/ WorkersDrain \/ ScopeCloses
    BY <1>5, StaysSame DEF PumpReturns, PumpPass, PumpParks, PumpDefers, DrivePass, DriveParks,
                 DriveLeaves, ReplyAwaited, ReplyTaken, WorkersDrain, ScopeCloses, Kinds
  <1>6. CASE PumpResumes \/ DriveResumes
    BY <1>6 DEF PumpResumes, DriveResumes, ResumeChild, Resumes, Kinds
  <1>7. CASE DriveRaises
    <2>1. UNCHANGED <<queue, cpu, act>>
      BY <1>7 DEF DriveRaises
    <2>2. CASE block.op = "spawn"
      <3>1. block.on \in Tasks /\ status[block.on] = "admitting"
        BY <2>2 DEF Starting, TypeOK, BlockOK
      <3> QED
        BY <1>7, <2>1, <2>2, <3>1 DEF DriveRaises, Abandon, RefuseBody, Refuses, ActMoves, Kinds
    <2>3. CASE block.op # "spawn"
      BY <1>7, <2>1, <2>3 DEF DriveRaises, Abandon, Stays, ActMoves, Kinds
    <2> QED
      BY <2>2, <2>3
  <1> QED
    BY <1>1, <1>2, <1>3, <1>4, <1>5, <1>6, <1>7 DEF BlockStep

\* What any step does to the children.
LEMMA KindsNext ==
    ASSUME TypeOK, Lives, CpuLive, Starting, [Next]_vars
    PROVE  Kinds
  <1>1. CASE HostStep \/ (\E w \in Forks : LaneStep(w)) \/ ClockPasses \/ UNCHANGED vars
    BY <1>1, StaysSame DEF HostStep, HostResumes, HostArms, BlockReady, TimerFires, NextTurn,
              ExternalReady, RouteReply, LaneStep, LaneStarts, LaneFinishes, LaneReplies,
              ClockPasses, vars, Kinds
  <1> QED
    BY <1>1, KindsCallback, KindsTask, KindsBlock DEF Next, Kinds

-----------------------------------------------------------------------------
(* The life of a child, step by step *)

\* Every step keeps the body and the place of a child with its status.
LEMMA KindsLife ==
    ASSUME TypeOK, Lives, Kinds, queue \in Seq({t \in Tasks : Live(t)})
    PROVE  Lives'
  <1> SUFFICES ASSUME NEW t \in Tasks PROVE Life(t)'
    BY DEF Lives
  <1>1. Life(t)
    BY DEF Lives
  <1>2. /\ status \in [Tasks -> Statuses] /\ act \in [Tasks -> ActRecords]
        /\ body \in [Tasks -> {"none", "held", "called", "released"}]
    BY DEF TypeOK, ScheduleOK, ControlOK, ActRecords
  <1>3. "new" \notin Inside /\ "over" \notin Inside /\ "body" \in Inside
    BY DEF Inside, Waits
  <1>4. ASSUME UNCHANGED <<status, body>>, ActMoves PROVE Life(t)'
    BY <1>1, <1>3, <1>4 DEF Life, Ended, ActMoves
  <1>5. CASE Stays
    BY <1>4, <1>5 DEF Stays
  <1>6. CASE Resumes
    <2>1. Head(queue) \in Tasks /\ Live(Head(queue))
      BY <1>6 DEF Resumes
    <2>2. CASE t = Head(queue)
      BY <1>1, <1>2, <1>6, <2>1, <2>2 DEF Resumes, Life, Live, Ended, Ends
    <2>3. CASE t # Head(queue)
      BY <1>1, <1>2, <1>6, <2>3 DEF Resumes, Life, Ended
    <2> QED
      BY <2>2, <2>3
  <1>7. ASSUME NEW u \in Tasks, Registers(u) \/ Refuses(u) \/ Admits(u) PROVE Life(t)'
    <2>1. Life(u)
      BY DEF Lives
    <2>2. act[u].at = "new"
      BY <1>7, <2>1 DEF Registers, Refuses, Admits, Life, Ended, Ends
    <2>3. ActMoves
      BY <1>7 DEF Registers, Refuses, Admits, ActMoves
    <2>4. CASE t = u
      <3>1. act'[t].at = "new"
        BY <1>3, <2>2, <2>3, <2>4 DEF ActMoves
      <3>2. \/ status'[t] = "queued" /\ body'[t] = "held"
            \/ status'[t] = "refused" /\ body'[t] = "released"
            \/ status'[t] = "admitting" /\ body'[t] = "held"
        BY <1>2, <1>7, <2>4 DEF Registers, Refuses, Admits
      <3> QED
        BY <3>1, <3>2 DEF Life
    <2>5. CASE t # u
      <3>1. status'[t] = status[t] /\ body'[t] = body[t]
        BY <1>2, <1>7, <2>5 DEF Registers, Refuses, Admits
      <3> QED
        BY <1>1, <1>3, <2>3, <3>1 DEF Life, Ended, ActMoves
    <2> QED
      BY <2>4, <2>5
  <1>8. ASSUME NEW u \in Tasks, Enters(u) PROVE Life(t)'
    <2>1. act'[u].at = "body" /\ \A v \in Tasks \ {u} : act'[v] = act[v]
      BY <1>2, <1>8 DEF Enters, ActRecords
    <2>2. CASE t = u
      BY <1>2, <1>3, <1>8, <2>1, <2>2 DEF Enters, Life
    <2>3. CASE t # u
      BY <1>1, <1>2, <1>8, <2>1, <2>3 DEF Enters, Life, Ended
    <2> QED
      BY <2>2, <2>3
  <1>9. ASSUME NEW u \in Tasks, NEW st \in Ends, Settles(u, st) PROVE Life(t)'
    <2>1. act'[u].at = "over" /\ \A v \in Tasks \ {u} : act'[v] = act[v]
      BY <1>2, <1>9 DEF Settles, ActRecords
    <2>2. CASE t = u
      <3>1. status'[t] = st /\ st \in Ends
        BY <1>2, <1>9, <2>2 DEF Settles
      <3>2. body'[t] \in {"called", "released"}
        <4>1. status[t] \in {"queued", "running"}
          BY <1>9, <2>2 DEF Settles, Live
        <4>2. CASE act[u].at \in Inside /\ body' = body
          BY <1>1, <1>3, <2>2, <4>1, <4>2 DEF Life, Ended, Ends
        <4>3. CASE body' = [body EXCEPT ![u] = "released"]
          BY <1>2, <2>2, <4>3
        <4> QED
          BY <1>9, <4>2, <4>3 DEF Settles
      <3> QED
        BY <2>1, <2>2, <3>1, <3>2 DEF Life, Ended
    <2>3. CASE t # u
      <3>1. status'[t] = status[t] /\ body'[t] = body[t]
        BY <1>2, <1>9, <2>3 DEF Settles
      <3> QED
        BY <1>1, <2>1, <2>3, <3>1 DEF Life, Ended
    <2> QED
      BY <2>2, <2>3
  <1> QED
    BY <1>5, <1>6, <1>7, <1>8, <1>9 DEF Kinds

\* Whoever gets control is a child that runs, or no child.
LEMMA KindsCpu ==
    ASSUME TypeOK, CpuLive, Kinds, queue \in Seq({t \in Tasks : Live(t)})
    PROVE  CpuLive'
  <1>1. status \in [Tasks -> Statuses] /\ Block \notin Tasks /\ Host \notin Tasks
    BY TasksAssumption DEF TypeOK, ScheduleOK, Block, Host
  <1>2. CASE Stays
    BY <1>1, <1>2 DEF Stays, CpuLive
  <1>3. CASE Resumes
    <2>1. Head(queue) \in Tasks
      BY <1>3 DEF Resumes
    <2> QED
      BY <1>1, <1>3, <2>1 DEF Resumes, CpuLive
  <1>4. ASSUME NEW u \in Tasks, Registers(u) \/ Refuses(u) \/ Admits(u) \/ Enters(u) PROVE CpuLive'
    BY <1>1, <1>4 DEF Registers, Refuses, Admits, Enters, CpuLive
  <1>5. ASSUME NEW u \in Tasks, NEW st \in Ends, Settles(u, st) PROVE CpuLive'
    BY <1>1, <1>5 DEF Settles, CpuLive
  <1> QED
    BY <1>2, <1>3, <1>4, <1>5 DEF Kinds

-----------------------------------------------------------------------------
(* The list and the queue *)

\* A sequence over a set is one over every larger set.
LEMMA SeqGrows ==
    ASSUME NEW S, NEW T, NEW s \in Seq(S), \A i \in 1..Len(s) : s[i] \in T
    PROVE  s \in Seq(T)
  OBVIOUS

LiveTasks == {t \in Tasks : Live(t)}

\* A child the scope took: it lives or has settled.
Started(t) == status[t] \notin {"new", "admitting", "refused"}
StartedTasks == {t \in Tasks : Started(t)}

\* The list holds the live children, each once, and the queue some of them.
Listed ==
    /\ queue \in Seq(LiveTasks) /\ list \in Seq(LiveTasks)
    /\ Distinct(queue) /\ Distinct(list)
    /\ \A t \in Tasks : Live(t) => Contains(list, t)

\* The callbacks there may be when the children of S have been started.
CallsTo(S) ==
    [do : {"resume", "request", "mark"}, who : S] \union [do : {"resume"}, who : {Block}]
    \union [do : {"route", "cancel"}, who : Forks]

\* Nobody is resumed, asked or made runnable, now or by whoever waits for it,
\* who was not started.
Known ==
    /\ owed \in Seq(CallsTo(StartedTasks)) /\ slotWaiters \in Seq(StartedTasks)
    /\ waiters \in [Tasks -> Seq(StartedTasks)]
    /\ \A w \in Forks : fork[w].waiter \in StartedTasks \union {Block, NoOne}

\* What Membership says of the list and the queue.
LEMMA ListedMembership ==
    ASSUME TypeOK, Listed
    PROVE  Membership
  <1>1. ASSUME NEW t \in Tasks, Contains(list, t) PROVE Live(t)
    BY <1>1 DEF Listed, LiveTasks, Contains
  <1>2. \A i \in 1..Len(queue) : Live(queue[i])
    BY DEF Listed, LiveTasks
  <1> QED
    BY <1>1, <1>2 DEF Listed, Membership

\* Nobody who was started is forgotten.
LEMMA StartedStays ==
    ASSUME TypeOK, Kinds, queue \in Seq(LiveTasks)
    PROVE  StartedTasks \subseteq StartedTasks'
  <1> SUFFICES ASSUME NEW t \in Tasks, Started(t) PROVE Started(t)'
    BY DEF StartedTasks
  <1>1. status \in [Tasks -> Statuses]
    BY DEF TypeOK, ScheduleOK
  <1>2. CASE Stays
    BY <1>2 DEF Stays, Started
  <1>3. CASE Resumes
    BY <1>1, <1>3 DEF Resumes, Started
  <1>4. ASSUME NEW u \in Tasks, Registers(u) \/ Refuses(u) \/ Admits(u) \/ Enters(u)
        PROVE  Started(t)'
    BY <1>1, <1>4 DEF Registers, Refuses, Admits, Enters, Started
  <1>5. ASSUME NEW u \in Tasks, NEW st \in Ends, Settles(u, st) PROVE Started(t)'
    BY <1>1, <1>5 DEF Settles, Started, Ends
  <1> QED
    BY <1>2, <1>3, <1>4, <1>5 DEF Kinds

\* Whoever is made runnable and is not there yet joins the queue.
LEMMA MarkListed ==
    ASSUME TypeOK, Listed, NEW t \in StartedTasks, MarkRunnable(t), UNCHANGED <<status, list>>
    PROVE  Listed'
  <1>1. LiveTasks' = LiveTasks
    BY DEF LiveTasks, Live
  <1>2. CASE Ended(t) \/ Contains(queue, t)
    <2>1. queue' = queue
      BY <1>2 DEF MarkRunnable
    <2> QED
      BY <1>1, <2>1 DEF Listed, Live
  <1>3. CASE ~(Ended(t) \/ Contains(queue, t))
    <2>1. queue' = Append(queue, t)
      BY <1>3 DEF MarkRunnable
    <2>2. t \in LiveTasks
      BY <1>3 DEF StartedTasks, Started, Ended, Ends, LiveTasks, Live, TypeOK, ScheduleOK, Statuses
    <2>3. queue' \in Seq(LiveTasks) /\ Distinct(queue')
      BY <1>3, <2>1, <2>2, AppendFacts DEF Listed
    <2> QED
      BY <1>1, <2>3 DEF Listed, Live
  <1> QED
    BY <1>2, <1>3

\* Every step keeps the list and the queue.
LEMMA KindsListed ==
    ASSUME TypeOK, Listed, Known, Kinds
    PROVE  Listed'
  <1> USE DEF Listed
  <1>1. /\ status \in [Tasks -> Statuses] /\ LiveTasks = {t \in Tasks : Live(t)}
        /\ LiveTasks' = {t \in Tasks : Live(t)'}
    BY DEF TypeOK, ScheduleOK, LiveTasks
  <1>2. CASE Stays
    <2>1. UNCHANGED <<status, list>> /\ LiveTasks' = LiveTasks
      BY <1>2 DEF Stays, LiveTasks, Live
    <2>2. CASE queue' = queue
      BY <2>1, <2>2 DEF Live
    <2>3. CASE queue' # queue
      <3>1. /\ owed # <<>> /\ Head(owed).do \in {"resume", "request", "mark"}
            /\ Head(owed).who \in Tasks /\ MarkRunnable(Head(owed).who)
        BY <1>2, <2>3 DEF Stays
      <3>2. Head(owed) \in CallsTo(StartedTasks)
        BY <3>1 DEF Known
      <3>3. Block \notin Tasks
        BY TasksAssumption DEF Block
      <3>4. Head(owed).who \in StartedTasks
        BY <3>1, <3>2, <3>3 DEF CallsTo
      <3> QED
        BY <2>1, <3>1, <3>4, MarkListed
    <2> QED
      BY <2>2, <2>3
  <1>3. CASE Resumes
    <2>1. Head(queue) \in LiveTasks /\ Tail(queue) \in Seq(LiveTasks) /\ Distinct(Tail(queue))
      BY <1>3, TailFacts DEF Resumes
    <2>2. LiveTasks' = LiveTasks
      BY <1>1, <1>3, <2>1 DEF Resumes, Live
    <2>3. UNCHANGED list /\ queue' = Tail(queue)
      BY <1>3 DEF Resumes
    <2> QED
      BY <1>1, <2>1, <2>2, <2>3
  <1>4. ASSUME NEW u \in Tasks, Registers(u) PROVE Listed'
    <2>1. \A t \in Tasks : Live(t)' <=> Live(t) \/ t = u
      BY <1>1, <1>4 DEF Registers, Live
    <2>2. ~Live(u)
      BY <1>4 DEF Registers, Live
    <2>3. LiveTasks \subseteq LiveTasks' /\ u \in LiveTasks' /\ u \notin LiveTasks
      BY <1>1, <2>1, <2>2
    <2>4. list \in Seq(LiveTasks') /\ queue \in Seq(LiveTasks')
      BY <2>3, SeqGrows
    <2>5. ~Contains(list, u)
      BY <2>3 DEF Contains
    <2>6. /\ list' \in Seq(LiveTasks') /\ Distinct(list')
          /\ \A y : Contains(list', y) <=> Contains(list, y) \/ y = u
      BY <1>4, <2>3, <2>4, <2>5, AppendFacts DEF Registers
    <2>7. UNCHANGED queue
      BY <1>4 DEF Registers
    <2> QED
      BY <2>1, <2>4, <2>6, <2>7
  <1>5. ASSUME NEW u \in Tasks, Refuses(u) \/ Admits(u) \/ Enters(u) PROVE Listed'
    <2>1. \A t \in Tasks : Live(t)' <=> Live(t)
      BY <1>1, <1>5 DEF Refuses, Admits, Enters, Live
    <2>2. LiveTasks' = LiveTasks /\ UNCHANGED <<list, queue>>
      BY <1>1, <1>5, <2>1 DEF Refuses, Admits, Enters
    <2> QED
      BY <2>1, <2>2
  <1>6. ASSUME NEW u \in Tasks, NEW st \in Ends, Settles(u, st) PROVE Listed'
    <2>1. \A t \in Tasks : Live(t)' <=> Live(t) /\ t # u
      BY <1>1, <1>6 DEF Settles, Live, Ends
    <2>2. LiveTasks' = LiveTasks \ {u}
      BY <1>1, <2>1
    <2>3. queue' = Without(queue, u) /\ list' = Without(list, u)
      BY <1>6 DEF Settles
    <2>4. queue' \in Seq(LiveTasks') /\ Distinct(queue')
      BY <2>2, <2>3, WithoutFacts
    <2>5. /\ list' \in Seq(LiveTasks') /\ Distinct(list')
          /\ \A y : y # u => (Contains(list', y) <=> Contains(list, y))
      BY <2>2, <2>3, WithoutFacts
    <2> QED
      BY <2>1, <2>4, <2>5
  <1> QED
    BY <1>2, <1>3, <1>4, <1>5, <1>6 DEF Kinds

-----------------------------------------------------------------------------
(* What a step does to a worker task's state and to who waits for it *)

\* A worker task's record has its five fields.
LEMMA ForkFields ==
    ASSUME TypeOK
    PROVE  /\ DOMAIN fork = Forks
           /\ \A v \in Forks : DOMAIN fork[v] = {"task", "lane", "end", "by", "waiter"}
  BY ControlTypes DEF ForkRecords

\* The reply of a worker task is taken by whoever waits for it.
LEMMA RouteFork ==
    ASSUME TypeOK, NEW w \in Forks, Route(w)
    PROVE  /\ fork'[w].waiter = NoOne /\ \A v \in Forks \ {w} : fork'[v] = fork[v]
           /\ fork'[w].task = IF fork[w].task = "queued" THEN fork[w].lane ELSE fork[w].task
  <1>2. CASE fork[w].task = "queued"
    <2>1. fork' = [fork EXCEPT ![w].task = fork[w].lane, ![w].lane = "routed", ![w].waiter = NoOne]
      BY <1>2 DEF Route
    <2> QED
      BY <1>2, <2>1, ForkFields
  <1>3. CASE fork[w].task # "queued"
    <2>1. fork' = [fork EXCEPT ![w].lane = "routed", ![w].waiter = NoOne]
      BY <1>3 DEF Route
    <2> QED
      BY <1>3, <2>1, ForkFields
  <1> QED
    BY <1>2, <1>3

\* A cancelled worker task settles here where its lane has not started it.
LEMMA RunCancelFork ==
    ASSUME TypeOK, RunCancel
    PROVE  LET w == Head(owed).who IN
           /\ w \in Forks /\ \A v \in Forks \ {w} : fork'[v] = fork[v]
           /\ \/ fork[w].task = "queued" /\ Route(w)
              \/ /\ fork[w].task = "queued" /\ fork'[w].task = "cancelled"
                 /\ fork'[w].waiter = fork[w].waiter
                 /\ ForkSettled(w, "cancelled", Tail(owed))
              \/ /\ fork'[w].task = fork[w].task /\ fork'[w].waiter = fork[w].waiter
                 /\ owed' = Tail(owed)
                 /\ UNCHANGED <<forks, outstanding, failed, cancelled, slotWaiters>>
  <1> DEFINE w == Head(owed).who
  <1>1. w \in Forks /\ fork \in [Forks -> ForkRecords]
    BY ControlTypes, HeadCallback, CallbackShape DEF RunCancel
  <1>2. \/ fork[w].task = "queued" /\ Route(w)
        \/ /\ fork[w].task = "queued"
           /\ fork' = [fork EXCEPT ![w].task = "cancelled", ![w].lane = "dropped"]
           /\ ForkSettled(w, "cancelled", Tail(owed))
        \/ /\ fork' = [fork EXCEPT ![w].lane = "stopping"]
           /\ owed' = Tail(owed)
           /\ UNCHANGED <<forks, outstanding, failed, cancelled, slotWaiters>>
        \/ owed' = Tail(owed) /\ UNCHANGED <<lanes, failed, cancelled, slotWaiters>>
    BY DEF RunCancel
  <1> HIDE DEF w
  <1>3. CASE fork[w].task = "queued" /\ Route(w)
    BY <1>1, <1>3, RouteFork DEF w
  <1>4. CASE /\ fork[w].task = "queued"
             /\ fork' = [fork EXCEPT ![w].task = "cancelled", ![w].lane = "dropped"]
             /\ ForkSettled(w, "cancelled", Tail(owed))
    <2>1. /\ fork'[w].task = "cancelled" /\ fork'[w].waiter = fork[w].waiter
          /\ \A v \in Forks \ {w} : fork'[v] = fork[v]
      BY <1>1, <1>4, ForkFields
    <2> QED
      BY <1>1, <1>4, <2>1 DEF w
  <1>5. CASE /\ fork' = [fork EXCEPT ![w].lane = "stopping"]
             /\ owed' = Tail(owed)
             /\ UNCHANGED <<forks, outstanding, failed, cancelled, slotWaiters>>
    <2>1. /\ fork'[w].task = fork[w].task /\ fork'[w].waiter = fork[w].waiter
          /\ \A v \in Forks \ {w} : fork'[v] = fork[v]
      BY <1>1, <1>5, ForkFields
    <2> QED
      BY <1>1, <1>5, <2>1 DEF w
  <1>6. CASE owed' = Tail(owed) /\ UNCHANGED <<lanes, failed, cancelled, slotWaiters>>
    BY <1>1, <1>6 DEF w, lanes
  <1> QED
    BY <1>2, <1>3, <1>4, <1>5, <1>6

\* A wait that is given up is no longer registered.
LEMMA WakeCancelledFork ==
    ASSUME TypeOK, NEW t \in Tasks, WakeCancelled(t)
    PROVE  \A v \in Forks : /\ fork'[v].task = fork[v].task
                            /\ fork'[v].waiter = IF fork[v].waiter = t THEN NoOne ELSE fork[v].waiter
  <1>2. fork' = [w \in Forks |-> [fork[w] EXCEPT !.waiter = IF @ = t THEN NoOne ELSE @]]
    BY DEF WakeCancelled
  <1> QED
    BY <1>2, ForkFields

\* What the block gives up is refused, and its wait is no longer registered.
LEMMA AbandonFork ==
    ASSUME TypeOK, Abandon
    PROVE  \A v \in Forks :
             /\ fork'[v].task = IF block.op = "work" /\ block.on = v THEN "refused" ELSE fork[v].task
             /\ fork'[v].waiter = IF fork[v].waiter = Block THEN NoOne ELSE fork[v].waiter
  <1>2. fork' = [w \in Forks |->
                   [fork[w] EXCEPT !.waiter = IF @ = Block THEN NoOne ELSE @,
                                   !.task = IF block.op = "work" /\ block.on = w
                                            THEN "refused" ELSE @]]
    BY DEF Abandon
  <1> QED
    BY <1>2, ForkFields

\* A worker task that is submitted, waited for by nobody yet.
LEMMA SubmitFork ==
    ASSUME TypeOK, NEW w \in Forks, NEW p, Submit(w, p)
    PROVE  /\ fork'[w].task = "queued" /\ fork'[w].waiter = NoOne
           /\ \A v \in Forks \ {w} : fork'[v] = fork[v]
  BY ControlTypes DEF Submit

\* The lanes settle nothing by themselves.
LEMMA LaneFork ==
    ASSUME TypeOK, NEW w \in Forks, LaneStep(w)
    PROVE  /\ fork'[w].task = fork[w].task /\ fork'[w].waiter = fork[w].waiter
           /\ \A v \in Forks \ {w} : fork'[v] = fork[v]
  <1>2. \/ \E ln : fork' = [fork EXCEPT ![w].lane = ln]
        \/ \E ln, en : fork' = [fork EXCEPT ![w].lane = ln, ![w].end = en]
    BY DEF LaneStep, LaneStarts, LaneFinishes, LaneReplies
  <1>3. ASSUME NEW ln, fork' = [fork EXCEPT ![w].lane = ln]
        PROVE  /\ fork'[w].task = fork[w].task /\ fork'[w].waiter = fork[w].waiter
               /\ \A v \in Forks \ {w} : fork'[v] = fork[v]
    BY <1>3, ForkFields
  <1>4. ASSUME NEW ln, NEW en, fork' = [fork EXCEPT ![w].lane = ln, ![w].end = en]
        PROVE  /\ fork'[w].task = fork[w].task /\ fork'[w].waiter = fork[w].waiter
               /\ \A v \in Forks \ {w} : fork'[v] = fork[v]
    BY <1>4, ForkFields
  <1> QED
    BY <1>2, <1>3, <1>4

\* A child, or the block, that parks for a reply is registered.
LEMMA WaiterFork ==
    ASSUME TypeOK, NEW w \in Forks, NEW p, fork' = [fork EXCEPT ![w].waiter = p]
    PROVE  /\ fork'[w].task = fork[w].task /\ fork'[w].waiter = p
           /\ \A v \in Forks \ {w} : fork'[v] = fork[v]
  BY ForkFields

\* A worker task the block looks for a slot for, or was refused one.
LEMMA TaskFork ==
    ASSUME TypeOK, NEW w \in Forks, NEW st, fork' = [fork EXCEPT ![w].task = st]
    PROVE  /\ fork'[w].task = st /\ fork'[w].waiter = fork[w].waiter
           /\ \A v \in Forks \ {w} : fork'[v] = fork[v]
  BY ForkFields

-----------------------------------------------------------------------------
(* Who may be called, step by step *)

\* The callbacks to children of S, in order or together.
LEMMA CallsToAll ==
    ASSUME NEW S
    PROVE  /\ \A s \in Seq(S) : /\ CallAll("resume", s) \in Seq(CallsTo(S))
                                /\ CallAll("request", s) \in Seq(CallsTo(S))
           /\ \A s \in Seq(Forks) : CallAll("cancel", s) \in Seq(CallsTo(S))
           /\ \A t \in S : /\ <<Call("mark", t)>> \in Seq(CallsTo(S))
                           /\ <<Call("resume", t)>> \in Seq(CallsTo(S))
           /\ <<Call("resume", Block)>> \in Seq(CallsTo(S))
           /\ \A w \in Forks : /\ <<Call("route", w)>> \in Seq(CallsTo(S))
                               /\ <<Call("cancel", w)>> \in Seq(CallsTo(S))
           /\ \A l \in Seq(S), o \in Seq(Forks) : Cancelling(l, o) \in Seq(CallsTo(S))
  <1>1. /\ \A t \in S : /\ Call("resume", t) \in CallsTo(S) /\ Call("request", t) \in CallsTo(S)
                        /\ Call("mark", t) \in CallsTo(S)
        /\ \A w \in Forks : Call("route", w) \in CallsTo(S) /\ Call("cancel", w) \in CallsTo(S)
        /\ Call("resume", Block) \in CallsTo(S)
    BY DEF Call, CallsTo
  <1>2. /\ \A s \in Seq(S) : /\ CallAll("resume", s) \in Seq(CallsTo(S))
                             /\ CallAll("request", s) \in Seq(CallsTo(S))
        /\ \A s \in Seq(Forks) : CallAll("cancel", s) \in Seq(CallsTo(S))
    BY <1>1 DEF CallAll
  <1> QED
    BY <1>1, <1>2 DEF Cancelling

\* What joins a sequence over S at its end is one of S.
LEMMA AppendType ==
    ASSUME NEW S, NEW s \in Seq(S), NEW x \in S
    PROVE  Append(s, x) \in Seq(S)
  OBVIOUS

\* Who was known stays known when more are started.
LEMMA KnownGrows ==
    ASSUME NEW S, NEW T, S \subseteq T
    PROVE  /\ \A s \in Seq(S) : s \in Seq(T)
           /\ \A s \in Seq(CallsTo(S)) : s \in Seq(CallsTo(T))
           /\ \A f \in [Tasks -> Seq(S)] : f \in [Tasks -> Seq(T)]
  <1>1. \A s \in Seq(S) : s \in Seq(T)
    BY SeqGrows
  <1>2. CallsTo(S) \subseteq CallsTo(T)
    BY DEF CallsTo
  <1> QED
    BY <1>1, <1>2, SeqGrows

\* What there is to call before a step, in terms of the children started after it.
KnownTo(T) ==
    /\ owed \in Seq(CallsTo(T)) /\ slotWaiters \in Seq(T) /\ waiters \in [Tasks -> Seq(T)]
    /\ \A w \in Forks : fork[w].waiter \in T \union {Block, NoOne}
    /\ list \in Seq(T) /\ outstanding \in Seq(Forks)
    /\ \A t \in Tasks : status[t] \in {"queued", "running"} => t \in T

\* All of them are started after the step.
LEMMA KnownAfter ==
    ASSUME TypeOK, Listed, Known, Kinds
    PROVE  KnownTo(StartedTasks')
  <1> DEFINE T == StartedTasks'
  <1>1. StartedTasks \subseteq T
    BY StartedStays DEF Listed
  <1>2. LiveTasks \subseteq StartedTasks
    BY DEF LiveTasks, StartedTasks, Live, Started
  <1>3. \A t \in Tasks : status[t] \in {"queued", "running"} => t \in LiveTasks
    BY DEF LiveTasks, Live
  <1>4. list \in Seq(LiveTasks) /\ outstanding \in Seq(Forks)
    BY DEF Listed, TypeOK, LanesOK
  <1> HIDE DEF T
  <1>5. LiveTasks \subseteq T
    BY <1>1, <1>2
  <1>6. KnownTo(T)
    BY <1>1, <1>3, <1>4, <1>5, KnownGrows DEF Known, KnownTo
  <1> QED
    BY <1>6 DEF T

\* A step that calls nobody and registers nobody.
LEMMA KnownSame ==
    ASSUME NEW T, T = StartedTasks', KnownTo(T), UNCHANGED <<owed, slotWaiters, waiters>>,
           \A w \in Forks : fork'[w].waiter \in {fork[w].waiter, Block, NoOne}
    PROVE  Known'
  BY DEF Known, KnownTo

\* deadlinePassed asks live children.
LEMMA KnownDeadline ==
    ASSUME NEW T, KnownTo(T), DeadlinePassed
    PROVE  owed' \in Seq(CallsTo(T))
  BY CallsToAll DEF DeadlinePassed, KnownTo

\* The observer of a settled worker task, and whoever waits for it.
LEMMA KnownForkSettled ==
    ASSUME NEW T, KnownTo(T), NEW w \in Forks, NEW st, NEW after \in Seq(CallsTo(T)),
           ForkSettled(w, st, after)
    PROVE  owed' \in Seq(CallsTo(T)) /\ slotWaiters' \in Seq(T)
  <1>1. /\ WakeSlots \in Seq(CallsTo(T))
        /\ Cancelling(list, Without(outstanding, w)) \in Seq(CallsTo(T))
    BY CallsToAll, WithoutType DEF KnownTo, WakeSlots
  <1> QED
    BY <1>1 DEF ForkSettled

\* A routed reply calls whoever waits for it, and nobody else.
LEMMA KnownRoute ==
    ASSUME NEW T, TypeOK, KnownTo(T), NEW w \in Forks, owed # <<>>, Route(w)
    PROVE  owed' \in Seq(CallsTo(T)) /\ slotWaiters' \in Seq(T)
  <1> DEFINE waiting == IF fork[w].waiter = NoOne THEN <<>> ELSE <<Call("resume", fork[w].waiter)>>
             after == waiting \o Tail(owed)
  <1>1. waiting \in Seq(CallsTo(T)) /\ Tail(owed) \in Seq(CallsTo(T))
    <2>1. fork[w].waiter \in T \union {Block, NoOne}
      BY DEF KnownTo
    <2>2. Tail(owed) \in Seq(CallsTo(T))
      BY DEF KnownTo
    <2> QED
      BY <2>1, <2>2, CallsToAll
  <1>2. after \in Seq(CallsTo(T))
    BY <1>1
  <1>3. \/ ForkSettled(w, fork[w].lane, after)
        \/ owed' = after /\ UNCHANGED slotWaiters
    BY DEF Route
  <1> HIDE DEF after
  <1> QED
    BY <1>2, <1>3, KnownForkSettled DEF KnownTo

\* settleChild calls those who wait for the child and for a slot.
LEMMA KnownSettle ==
    ASSUME NEW T, TypeOK, KnownTo(T), NEW u \in Tasks, NEW st, NEW after \in Seq(CallsTo(T)),
           SettleChild(u, st, after)
    PROVE  /\ owed' \in Seq(CallsTo(T)) /\ slotWaiters' \in Seq(T)
           /\ waiters' \in [Tasks -> Seq(T)]
  <1>1. /\ CallAll("resume", waiters[u]) \in Seq(CallsTo(T)) /\ WakeSlots \in Seq(CallsTo(T))
    BY CallsToAll DEF KnownTo, WakeSlots
  <1>2. waiters' \in [Tasks -> Seq(T)]
    BY DEF SettleChild, KnownTo
  <1> QED
    BY <1>1, <1>2 DEF SettleChild

\* A child that ends calls its waiters, and asks its siblings where it failed.
LEMMA KnownFinish ==
    ASSUME NEW T, TypeOK, KnownTo(T), NEW u \in Tasks, NEW st, Finish(u, st)
    PROVE  /\ owed' \in Seq(CallsTo(T)) /\ slotWaiters' \in Seq(T)
           /\ waiters' \in [Tasks -> Seq(T)] /\ UNCHANGED fork
  <1>1. Cancelling(Without(list, u), outstanding) \in Seq(CallsTo(T)) /\ <<>> \in Seq(CallsTo(T))
    BY CallsToAll, WithoutType DEF KnownTo
  <1>2. \E after \in Seq(CallsTo(T)) : SettleChild(u, st, after)
    BY <1>1 DEF Finish
  <1> QED
    BY <1>2, KnownSettle DEF Finish, lanes

\* No callback calls a child that was not started.
LEMMA KnownCallback ==
    ASSUME NEW T, TypeOK, T = StartedTasks', KnownTo(T), RunCallback
    PROVE  Known'
  <1> USE DEF KnownTo
  <1>1. owed # <<>> /\ Tail(owed) \in Seq(CallsTo(T))
    BY DEF RunCallback, RunResume, RunRequest, RunMark, RunRoute, RunCancel
  <1>2. CASE RunResume \/ RunRequest \/ RunMark
    <2>1. owed' = Tail(owed) /\ UNCHANGED <<slotWaiters, waiters, fork>>
      BY <1>2 DEF RunResume, RunRequest, RunMark, slots, lanes
    <2> QED
      BY <1>1, <2>1 DEF Known
  <1>3. CASE RunRoute
    <2> DEFINE w == Head(owed).who
    <2>1. w \in Forks /\ UNCHANGED waiters
      BY <1>3, ControlTypes, HeadCallback, CallbackShape DEF RunRoute
    <2>2. Route(w) \/ (owed' = Tail(owed) /\ UNCHANGED <<slotWaiters, fork>>)
      BY <1>3 DEF RunRoute, lanes
    <2> HIDE DEF w
    <2>3. CASE Route(w)
      BY <1>1, <2>1, <2>3, KnownRoute, RouteFork DEF Known
    <2>4. CASE owed' = Tail(owed) /\ UNCHANGED <<slotWaiters, fork>>
      BY <1>1, <2>1, <2>4 DEF Known
    <2> QED
      BY <2>2, <2>3, <2>4
  <1>4. CASE RunCancel
    <2> DEFINE w == Head(owed).who
    <2>1. /\ w \in Forks /\ \A v \in Forks \ {w} : fork'[v] = fork[v]
          /\ \/ fork[w].task = "queued" /\ Route(w)
             \/ /\ fork'[w].waiter = fork[w].waiter
                /\ ForkSettled(w, "cancelled", Tail(owed))
             \/ /\ fork'[w].waiter = fork[w].waiter
                /\ owed' = Tail(owed) /\ UNCHANGED slotWaiters
      BY <1>4, RunCancelFork
    <2>2. UNCHANGED waiters
      BY <1>4 DEF RunCancel
    <2> HIDE DEF w
    <2>3. CASE Route(w)
      BY <1>1, <2>1, <2>2, <2>3, KnownRoute, RouteFork DEF Known
    <2>4. CASE fork'[w].waiter = fork[w].waiter /\ ForkSettled(w, "cancelled", Tail(owed))
      <3>1. owed' \in Seq(CallsTo(T)) /\ slotWaiters' \in Seq(T)
        BY <1>1, <2>1, <2>4, KnownForkSettled
      <3> QED
        BY <2>1, <2>2, <2>4, <3>1 DEF Known
    <2>5. CASE /\ fork'[w].waiter = fork[w].waiter
               /\ owed' = Tail(owed) /\ UNCHANGED slotWaiters
      BY <1>1, <2>1, <2>2, <2>5 DEF Known
    <2> QED
      BY <2>1, <2>3, <2>4, <2>5
  <1> QED
    BY <1>2, <1>3, <1>4 DEF RunCallback

\* Nor does the cancellation of a child.
LEMMA KnownCancel ==
    ASSUME NEW T, TypeOK, T = StartedTasks', KnownTo(T), NEW u \in Tasks, CancelChild(u), UNCHANGED fork
    PROVE  Known'
  <1>1. CASE UNCHANGED <<owed, slotWaiters, waiters>>
    BY <1>1, KnownSame
  <1>2. CASE SettleChild(u, "cancelled", <<>>)
    <2>1. <<>> \in Seq(CallsTo(T))
      OBVIOUS
    <2>2. /\ owed' \in Seq(CallsTo(T)) /\ slotWaiters' \in Seq(T) /\ waiters' \in [Tasks -> Seq(T)]
      BY <1>2, <2>1, KnownSettle
    <2> QED
      BY <2>2 DEF Known, KnownTo
  <1>3. CASE status[u] = "running" /\ owed' = <<Call("mark", u)>> /\ UNCHANGED <<slotWaiters, waiters>>
    <2>1. u \in T
      BY <1>3 DEF KnownTo
    <2>2. owed' \in Seq(CallsTo(T))
      BY <1>3, <2>1, CallsToAll
    <2> QED
      BY <1>3, <2>2 DEF Known, KnownTo
  <1> QED
    BY <1>1, <1>2, <1>3 DEF CancelChild

\* Nor does a step of a child.
LEMMA KnownTask ==
    ASSUME NEW T, TypeOK, CpuLive, T = StartedTasks', KnownTo(T), NEW t \in Tasks, TaskStep(t)
    PROVE  Known'
  <1>1. ASSUME Runs(t) PROVE t \in T
    BY <1>1 DEF Runs, CpuLive, KnownTo
  <1>2. CASE Enter(t) \/ BodyReturns(t) \/ BodyFails(t) \/ Unwinds(t)
    <2>1. (\E st : Finish(t, st)) \/ UNCHANGED <<owed, slotWaiters, waiters, fork>>
      BY <1>2 DEF Enter, BodyReturns, BodyFails, Unwinds, slots, lanes
    <2>2. CASE \E st : Finish(t, st)
      <3>1. /\ owed' \in Seq(CallsTo(T)) /\ slotWaiters' \in Seq(T)
            /\ waiters' \in [Tasks -> Seq(T)] /\ UNCHANGED fork
        BY <2>2, KnownFinish
      <3> QED
        BY <3>1 DEF Known, KnownTo
    <2> QED
      BY <2>1, <2>2, KnownSame
  <1>3. CASE WakeCancelled(t)
    <2>1. \A v \in Forks : fork'[v].waiter \in {fork[v].waiter, NoOne}
      BY <1>3, WakeCancelledFork
    <2>2. waiters' = [u \in Tasks |-> Without(waiters[u], t)] /\ UNCHANGED owed
          /\ slotWaiters' = Without(slotWaiters, t)
      BY <1>3 DEF WakeCancelled
    <2>3. waiters' \in [Tasks -> Seq(T)] /\ slotWaiters' \in Seq(T)
      BY <2>2, WithoutType DEF KnownTo
    <2> QED
      BY <2>1, <2>2, <2>3 DEF Known, KnownTo
  <1>4. CASE WakeEarly(t) \/ WakeReady(t) \/ WakeDrained(t) \/ Catch(t) \/ ParkExternally(t)
             \/ AwaitReturns(t) \/ \E d \in Deliberate : DrainNested(t, d)
    BY <1>4, KnownSame DEF WakeEarly, WakeReady, WakeDrained, Catch, ParkExternally, AwaitReturns,
                           DrainNested, slots, lanes
  <1>5. CASE WakeLender(t)
    <2>1. UNCHANGED <<owed, waiters, fork>>
      BY <1>5 DEF WakeLender, lanes
    <2>2. t \in T
      BY <1>1, <1>5 DEF WakeLender
    <2>3. slotWaiters' = slotWaiters \/ slotWaiters' = Append(slotWaiters, t)
      BY <1>5 DEF WakeLender
    <2>4. slotWaiters' \in Seq(T)
      BY <2>2, <2>3, AppendType DEF KnownTo
    <2> QED
      BY <2>1, <2>4 DEF Known, KnownTo
  <1>6. CASE Checkpoint(t)
    <2>1. UNCHANGED <<slotWaiters, waiters, fork>> /\ DeadlinePassed
      BY <1>6 DEF Checkpoint, slots, lanes
    <2> QED
      BY <2>1, KnownDeadline DEF Known, KnownTo
  <1>7. CASE CancelScope(t)
    <2>1. UNCHANGED <<slotWaiters, waiters, fork>> /\ owed' = Cancelling(list, outstanding)
      BY <1>7 DEF CancelScope, CancelImpl, slots, lanes
    <2> QED
      BY <2>1, CallsToAll DEF Known, KnownTo
  <1>8. CASE AwaitForkReturns(t)
    <2>1. UNCHANGED <<slotWaiters, waiters>>
      BY <1>8 DEF AwaitForkReturns, slots
    <2>2. t \in T
      BY <1>1, <1>8 DEF AwaitForkReturns
    <2>3. \/ fork' = [fork EXCEPT ![act[t].on].waiter = t] /\ UNCHANGED owed
          \/ UNCHANGED fork /\ DeadlinePassed
      BY <1>8 DEF AwaitForkReturns
    <2>4. \A v \in Forks : fork'[v].waiter \in T \union {Block, NoOne}
      BY <2>2, <2>3, ForkFields DEF KnownTo
    <2> QED
      BY <2>1, <2>3, <2>4, KnownDeadline DEF Known, KnownTo
  <1>9. CASE \E u \in Tasks : Spawn(t, u)
    <2> PICK u \in Tasks : Spawn(t, u)
      BY <1>9
    <2>1. UNCHANGED <<waiters, fork>> /\ t \in T
      BY <1>1 DEF Spawn, Does, lanes
    <2>2. slotWaiters' = slotWaiters \/ slotWaiters' = Append(slotWaiters, t)
      BY DEF Spawn, Lend
    <2>3. UNCHANGED owed \/ (status' = [status EXCEPT ![u] = "queued"] /\ owed' = <<Call("mark", u)>>)
      BY DEF Spawn, Register
    <2>4. owed' \in Seq(CallsTo(T))
      <3>1. ASSUME status' = [status EXCEPT ![u] = "queued"] PROVE u \in T
        BY <3>1 DEF StartedTasks, Started, TypeOK, ScheduleOK
      <3> QED
        BY <2>3, <3>1, CallsToAll DEF KnownTo
    <2>5. slotWaiters' \in Seq(T)
      BY <2>1, <2>2, AppendType DEF KnownTo
    <2> QED
      BY <2>1, <2>4, <2>5 DEF Known, KnownTo
  <1>10. CASE \E u \in Tasks : Await(t, u)
    <2> PICK u \in Tasks : Await(t, u)
      BY <1>10
    <2>1. UNCHANGED <<owed, slotWaiters, fork>> /\ t \in T
      BY <1>1 DEF Await, Does, lanes
    <2>2. waiters' = waiters \/ waiters' = [waiters EXCEPT ![u] = Append(@, t)]
      BY DEF Await
    <2>3. waiters' \in [Tasks -> Seq(T)]
      <3>1. waiters \in [Tasks -> Seq(T)] /\ Append(waiters[u], t) \in Seq(T)
        BY <2>1, AppendType DEF KnownTo
      <3> QED
        BY <2>2, <3>1
    <2> QED
      BY <2>1, <2>3 DEF Known, KnownTo
  <1>11. CASE \E u \in Tasks : CancelTask(t, u)
    BY <1>11, KnownCancel DEF CancelTask, lanes
  <1>12. CASE \E w \in Forks : Work(t, w)
    <2> PICK w \in Forks : Work(t, w)
      BY <1>12
    <2>1. UNCHANGED <<owed, waiters>> /\ t \in T
      BY <1>1 DEF Work, Does
    <2>2. slotWaiters' = slotWaiters \/ slotWaiters' = Append(slotWaiters, t)
      BY DEF Work, Lend
    <2>3. Submit(w, t) \/ UNCHANGED fork
      BY DEF Work, lanes
    <2>4. \A v \in Forks : fork'[v].waiter \in {fork[v].waiter, NoOne}
      BY <2>3, SubmitFork
    <2>5. slotWaiters' \in Seq(T)
      BY <2>1, <2>2, AppendType DEF KnownTo
    <2> QED
      BY <2>1, <2>4, <2>5 DEF Known, KnownTo
  <1>13. CASE \E w \in Forks : AwaitFork(t, w) \/ CancelFork(t, w)
    <2> PICK w \in Forks : AwaitFork(t, w) \/ CancelFork(t, w)
      BY <1>13
    <2>1. UNCHANGED <<slotWaiters, waiters, fork>>
      BY DEF AwaitFork, CancelFork, slots, lanes
    <2>2. owed' \in {owed, <<>>, <<Call("route", w)>>, <<Call("cancel", w)>>}
      BY DEF AwaitFork, CancelFork
    <2>3. owed' \in Seq(CallsTo(T))
      <3>1. /\ owed \in Seq(CallsTo(T)) /\ <<>> \in Seq(CallsTo(T))
            /\ <<Call("route", w)>> \in Seq(CallsTo(T)) /\ <<Call("cancel", w)>> \in Seq(CallsTo(T))
        BY CallsToAll DEF KnownTo
      <3> QED
        BY <2>2, <3>1
    <2> QED
      BY <2>1, <2>3 DEF Known, KnownTo
  <1> QED
    BY <1>2, <1>3, <1>4, <1>5, <1>6, <1>7, <1>8, <1>9, <1>10, <1>11, <1>12, <1>13 DEF TaskStep

\* Nor does a step of the block.
LEMMA KnownBlock ==
    ASSUME NEW T, TypeOK, T = StartedTasks', KnownTo(T), BlockStep
    PROVE  Known'
  <1>1. CASE \E u \in Tasks : BlockSpawn(u) \/ BlockAwait(u)
    BY <1>1, KnownSame DEF BlockSpawn, BlockAwait, slots, lanes
  <1>2. CASE \E u \in Tasks : BlockCancelTask(u)
    BY <1>2, KnownCancel DEF BlockCancelTask, lanes
  <1>3. CASE \E w \in Forks : BlockWork(w)
    <2> PICK w \in Forks : BlockWork(w)
      BY <1>3
    <2>1. UNCHANGED <<owed, slotWaiters, waiters>>
      BY DEF BlockWork, slots
    <2>2. \A v \in Forks : fork'[v].waiter = fork[v].waiter
      BY ForkFields DEF BlockWork
    <2> QED
      BY <2>1, <2>2, KnownSame
  <1>4. CASE (\E w \in Forks : BlockAwaitFork(w) \/ BlockCancelFork(w)) \/ SlotWanted \/ WorkersDrain
    <2>1. UNCHANGED <<slotWaiters, waiters, fork>>
      BY <1>4 DEF BlockAwaitFork, BlockCancelFork, SlotWanted, WorkersDrain, slots, lanes
    <2>2. \/ owed' \in {owed, <<>>}
          \/ \E w \in Forks : owed' \in {<<Call("route", w)>>, <<Call("cancel", w)>>}
      <3>1. outstanding # <<>> => Head(outstanding) \in Forks
        BY DEF TypeOK, LanesOK
      <3> QED
        BY <1>4, <3>1 DEF BlockAwaitFork, BlockCancelFork, SlotWanted, WorkersDrain
    <2>3. owed' \in Seq(CallsTo(T))
      <3>1. /\ owed \in Seq(CallsTo(T)) /\ <<>> \in Seq(CallsTo(T))
            /\ \A w \in Forks : /\ <<Call("route", w)>> \in Seq(CallsTo(T))
                                /\ <<Call("cancel", w)>> \in Seq(CallsTo(T))
        BY CallsToAll DEF KnownTo
      <3> QED
        BY <2>2, <3>1
    <2> QED
      BY <2>1, <2>3 DEF Known, KnownTo
  <1>5. CASE BlockCancelScope \/ BlockCloses
    <2>1. /\ UNCHANGED <<slotWaiters, waiters, fork>>
          /\ owed' \in {<<>>, Cancelling(list, outstanding)}
      BY <1>5 DEF BlockCancelScope, BlockCloses, CancelImpl, slots, lanes
    <2>2. <<>> \in Seq(CallsTo(T)) /\ Cancelling(list, outstanding) \in Seq(CallsTo(T))
      BY CallsToAll DEF KnownTo
    <2> QED
      BY <2>1, <2>2 DEF Known, KnownTo
  <1>6. CASE BlockCheckpoint \/ PumpPass \/ DrivePass \/ ReplyTaken
    <2>1. UNCHANGED <<slotWaiters, waiters, fork>> /\ (DeadlinePassed \/ UNCHANGED owed)
      BY <1>6 DEF BlockCheckpoint, PumpPass, DrivePass, ReplyTaken, slots, lanes
    <2> QED
      BY <2>1, KnownDeadline DEF Known, KnownTo
  <1>7. CASE SlotTaken
    <2>1. UNCHANGED <<slotWaiters, waiters>>
      BY <1>7 DEF SlotTaken, slots
    <2>2. owed' \in Seq(CallsTo(T))
      <3>1. \/ UNCHANGED owed
            \/ /\ block.op = "spawn" /\ status' = [status EXCEPT ![block.on] = "queued"]
               /\ owed' = <<Call("mark", block.on)>>
        BY <1>7 DEF SlotTaken, Register
      <3>2. ASSUME block.op = "spawn", status' = [status EXCEPT ![block.on] = "queued"]
            PROVE  block.on \in T
        BY <3>2 DEF StartedTasks, Started, TypeOK, ScheduleOK, BlockOK
      <3>3. ASSUME block.on \in T PROVE <<Call("mark", block.on)>> \in Seq(CallsTo(T))
        BY <3>3, CallsToAll
      <3> QED
        BY <3>1, <3>2, <3>3 DEF KnownTo
    <2>3. \A v \in Forks : fork'[v].waiter \in {fork[v].waiter, NoOne}
      <3>1. \/ UNCHANGED fork
            \/ fork' = [fork EXCEPT ![block.on].task = "refused"]
            \/ Submit(block.on, Block)
        BY <1>7 DEF SlotTaken, BlockRefused, lanes
      <3> QED
        BY <3>1, ForkFields DEF Submit
    <2> QED
      BY <2>1, <2>2, <2>3 DEF Known, KnownTo
  <1>8. CASE BlockParks \/ PumpReturns \/ PumpResumes \/ PumpParks \/ PumpDefers \/ DriveResumes
             \/ DriveParks \/ DriveLeaves \/ ScopeCloses
    BY <1>8, KnownSame DEF BlockParks, PumpReturns, PumpResumes, PumpParks, PumpDefers, DriveResumes,
                           DriveParks, DriveLeaves, ScopeCloses, slots, lanes
  <1>9. CASE DriveRaises
    <2>1. UNCHANGED <<owed, slotWaiters, waiters>> /\ Abandon
      BY <1>9 DEF DriveRaises, slots
    <2> QED
      BY <2>1, AbandonFork, KnownSame
  <1>10. CASE ReplyAwaited
    <2>1. UNCHANGED <<owed, slotWaiters, waiters>>
      BY <1>10 DEF ReplyAwaited, slots
    <2>2. \A v \in Forks : fork'[v].waiter \in {fork[v].waiter, Block}
      BY <1>10, ForkFields DEF ReplyAwaited
    <2> QED
      BY <2>1, <2>2, KnownSame
  <1> QED
    BY <1>1, <1>2, <1>3, <1>4, <1>5, <1>6, <1>7, <1>8, <1>9, <1>10 DEF BlockStep

\* Nor does the host, a lane or the clock.
LEMMA KnownRest ==
    ASSUME NEW T, TypeOK, Lives, T = StartedTasks', KnownTo(T),
           HostStep \/ (\E w \in Forks : LaneStep(w)) \/ ClockPasses
    PROVE  Known'
  <1>1. CASE \E t \in Tasks : ExternalReady(t)
    <2> PICK t \in Tasks : ExternalReady(t)
      BY <1>1
    <2>1. UNCHANGED <<slotWaiters, waiters, fork>> /\ owed' = <<Call("resume", t)>>
      BY DEF ExternalReady, slots, lanes
    <2>2. t \in T
      BY DEF ExternalReady, Lives, Life, Ended, KnownTo
    <2> QED
      BY <2>1, <2>2, CallsToAll DEF Known, KnownTo
  <1>2. CASE BlockReady \/ NextTurn \/ \E w \in Forks : RouteReply(w)
    <2>1. UNCHANGED <<slotWaiters, waiters, fork>>
      BY <1>2 DEF BlockReady, NextTurn, RouteReply, slots, lanes
    <2>2. owed' \in {<<>>, <<Call("resume", Block)>>} \/ \E w \in Forks : owed' = <<Call("route", w)>>
      BY <1>2 DEF BlockReady, NextTurn, RouteReply
    <2>3. owed' \in Seq(CallsTo(T))
      <3>1. /\ <<>> \in Seq(CallsTo(T)) /\ <<Call("resume", Block)>> \in Seq(CallsTo(T))
            /\ \A w \in Forks : <<Call("route", w)>> \in Seq(CallsTo(T))
        BY CallsToAll
      <3> QED
        BY <2>2, <3>1
    <2> QED
      BY <2>1, <2>3 DEF Known, KnownTo
  <1>3. CASE HostResumes \/ HostArms \/ TimerFires \/ ClockPasses
    BY <1>3, KnownSame DEF HostResumes, HostArms, TimerFires, ClockPasses, slots, lanes
  <1>4. CASE \E w \in Forks : LaneStep(w)
    <2> PICK w \in Forks : LaneStep(w)
      BY <1>4
    <2>1. UNCHANGED <<owed, slotWaiters, waiters>>
      BY DEF LaneStep, LaneStarts, LaneFinishes, LaneReplies, slots
    <2> QED
      BY <2>1, LaneFork, KnownSame
  <1> QED
    BY <1>1, <1>2, <1>3, <1>4 DEF HostStep

\* Every step keeps what is known.
LEMMA KnownNext ==
    ASSUME TypeOK, Lives, CpuLive, Listed, Known, Kinds, [Next]_vars
    PROVE  Known'
  <1>1. KnownTo(StartedTasks')
    BY KnownAfter
  <1>2. CASE UNCHANGED vars
    BY <1>1, <1>2, KnownSame DEF vars, slots, lanes
  <1> QED
    BY <1>1, <1>2, KnownCallback, KnownTask, KnownBlock, KnownRest DEF Next

-----------------------------------------------------------------------------
(* What the block is starting, step by step *)

\* A step that starts and refuses nothing.
LEMMA StartingSame ==
    ASSUME Starting, block'.op = block.op, block'.on = block.on,
           block'.at \in {"run", "done"} => block.op = "none",
           \A t \in Tasks : status'[t] = "admitting" <=> status[t] = "admitting",
           \A w \in Forks : fork'[w].task = "admitting" <=> fork[w].task = "admitting"
    PROVE  Starting'
  BY DEF Starting

\* Back in the body, or at the end of the block, it starts nothing.
LEMMA StartingOver ==
    ASSUME block'.op \notin {"spawn", "work"}, block'.at \in {"run", "done"} => block'.op = "none",
           \A t \in Tasks : status'[t] # "admitting",
           \A w \in Forks : fork'[w].task # "admitting"
    PROVE  Starting'
  BY DEF Starting

\* The fields of the block's record where only its place, its wait, its
\* worker task or its wakeup changes.
LEMMA BlockFields ==
    ASSUME TypeOK
    PROVE  /\ DOMAIN block = {"at", "op", "on", "fork", "wait", "ready"}
           /\ FireWakers => block'.op = block.op /\ block'.on = block.on /\ block'.at = block.at
                            /\ block'.wait = block.wait /\ block'.fork = block.fork
  <1>1. DOMAIN block = {"at", "op", "on", "fork", "wait", "ready"}
    BY DEF TypeOK, BlockOK
  <1>2. FireWakers => block' = block \/ block' = [block EXCEPT !.ready = TRUE]
    BY DEF FireWakers
  <1> QED
    BY <1>1, <1>2

\* Callbacks leave alone what the block is starting.
LEMMA StartingCallback ==
    ASSUME TypeOK, Starting, RunCallback
    PROVE  Starting'
  <1>1. UNCHANGED status
    BY DEF RunCallback, RunResume, RunRequest, RunMark, RunRoute, RunCancel, schedule
  <1>2. CASE RunResume \/ RunRequest \/ RunMark
    <2>1. UNCHANGED fork
      BY <1>2 DEF RunResume, RunRequest, RunMark, lanes
    <2>2. \/ block' = block \/ block' = [block EXCEPT !.ready = TRUE] \/ FireWakers
      BY <1>2 DEF RunResume, RunRequest, RunMark, MarkRunnable
    <2>3. block'.op = block.op /\ block'.on = block.on /\ block'.at = block.at
      BY <2>2, BlockFields
    <2> QED
      BY <1>1, <2>1, <2>3, StartingSame DEF Starting
  <1>3. CASE RunRoute \/ RunCancel
    <2>1. UNCHANGED block
      BY <1>3 DEF RunRoute, RunCancel
    <2>2. \A w \in Forks : fork'[w].task = "admitting" <=> fork[w].task = "admitting"
      <3>1. ASSUME NEW w \in Forks, Route(w), NEW v \in Forks
            PROVE  fork'[v].task = "admitting" <=> fork[v].task = "admitting"
        <4>1. fork[w].lane \in Replies
          BY <3>1 DEF Route
        <4> QED
          BY <3>1, <4>1, RouteFork DEF Replies, Ends
      <3>2. CASE RunRoute
        <4>1. Head(owed).who \in Forks
          BY <3>2, ControlTypes, HeadCallback, CallbackShape DEF RunRoute
        <4> QED
          BY <3>1, <3>2, <4>1 DEF RunRoute, lanes
      <3>3. CASE RunCancel
        BY <3>1, <3>3, RunCancelFork
      <3> QED
        BY <1>3, <3>2, <3>3
    <2> QED
      BY <1>1, <2>1, <2>2, StartingSame DEF Starting
  <1> QED
    BY <1>2, <1>3 DEF RunCallback

\* So does a child: it starts others, never the one the block is starting.
LEMMA StartingTask ==
    ASSUME TypeOK, Starting, NEW t \in Tasks, TaskStep(t), Lives, CpuLive
    PROVE  Starting'
  <1>1. UNCHANGED block
    BY DEF TaskStep, Enter, WakeCancelled, WakeEarly, WakeReady, WakeLender, WakeDrained, BodyReturns,
           BodyFails, Unwinds, Catch, ParkExternally, Checkpoint, AwaitReturns, AwaitForkReturns,
           CancelScope, DrainNested, Spawn, Await, CancelTask, Work, AwaitFork, CancelFork, Finish
  <1>2. \A u \in Tasks : status'[u] = "admitting" <=> status[u] = "admitting"
    <2>1. status \in [Tasks -> Statuses]
      BY DEF TypeOK, ScheduleOK
    <2>2. CASE \E u \in Tasks : Spawn(t, u)
      BY <2>1, <2>2 DEF Spawn, NextTask, Register, RefuseBody
    <2>3. CASE \E u \in Tasks : CancelTask(t, u)
      BY <2>1, <2>3 DEF CancelTask, CancelChild, SettleChild
    <2>4. CASE Enter(t) \/ BodyReturns(t) \/ BodyFails(t) \/ Unwinds(t)
      <3>1. status[t] = "running"
        BY <2>4 DEF Enter, BodyReturns, BodyFails, Unwinds, Runs, CpuLive
      <3>2. UNCHANGED status \/ \E st \in Ends : status' = [status EXCEPT ![t] = st]
        BY <2>4 DEF Enter, BodyReturns, BodyFails, Unwinds, Finish, SettleChild, Ends
      <3> QED
        BY <2>1, <3>1, <3>2 DEF Ends
    <2>5. CASE ~(\/ \E u \in Tasks : Spawn(t, u) \/ CancelTask(t, u)
                 \/ Enter(t) \/ BodyReturns(t) \/ BodyFails(t) \/ Unwinds(t))
      BY <2>5 DEF TaskStep, WakeCancelled, WakeEarly, WakeReady, WakeLender, WakeDrained, Catch,
           ParkExternally, Checkpoint, AwaitReturns, AwaitForkReturns, CancelScope, DrainNested, Await,
           Work, AwaitFork, CancelFork, schedule
    <2> QED
      BY <2>2, <2>3, <2>4, <2>5
  <1>3. \A w \in Forks : fork'[w].task = "admitting" <=> fork[w].task = "admitting"
    <2>1. CASE WakeCancelled(t)
      BY <2>1, WakeCancelledFork
    <2>2. CASE AwaitForkReturns(t)
      <3>1. fork' = fork \/ fork' = [fork EXCEPT ![act[t].on].waiter = t]
        BY <2>2 DEF AwaitForkReturns
      <3> QED
        BY <3>1, ForkFields
    <2>3. CASE \E w \in Forks : Work(t, w)
      <3> PICK w \in Forks : Work(t, w)
        BY <2>3
      <3>1. fork[w].task = "new" /\ (Submit(w, t) \/ UNCHANGED fork)
        BY DEF Work, NextFork, lanes
      <3> QED
        BY <3>1, SubmitFork
    <2>4. CASE ~(WakeCancelled(t) \/ AwaitForkReturns(t) \/ \E w \in Forks : Work(t, w))
      BY <2>4 DEF TaskStep, Enter, WakeEarly, WakeReady, WakeLender, WakeDrained, BodyReturns,
           BodyFails, Unwinds, Catch, ParkExternally, Checkpoint, AwaitReturns, CancelScope,
           DrainNested, Spawn, Await, CancelTask, AwaitFork, CancelFork, Finish, lanes
    <2> QED
      BY <2>1, <2>2, <2>3, <2>4
  <1> QED
    BY <1>1, <1>2, <1>3, StartingSame DEF Starting

-----------------------------------------------------------------------------
(* Where the block is *)

\* What the pump and the wait for a reply are used for, and where a frame that
\* waits can be.
PumpOps == {"await", "spawn", "work", "drain"}
ReplyOps == {"fork", "spawn", "work", "drain"}
Away == {"drive", "driving", "leaving", "out"}

\* What the block waits for goes with what it does, and it is away exactly
\* while it waits.
Waiting ==
    /\ block.at \in {"pump", "pumping"} => block.op \in PumpOps
    /\ block.wait \in {"scope", "turn"} => block.op \in PumpOps
    /\ block.wait = "ext" => block.op = "ext"
    /\ block.wait = "reply" \/ block.at = "reply" => block.op \in ReplyOps
    /\ block.at = "workers" => block.op = "drain"
    /\ block.wait # "none" <=> block.at \in Away
    /\ block.at = "leaving" => block.ready
    /\ "park" \in wakers => block.wait = "scope"

\* Who has control goes with where the block is.
Driving ==
    /\ cpu = Host => block.at = "out"
    /\ cpu \in Tasks => block.at \in {"pump", "drive"}
    /\ closed => block.at = "done"

\* The block as it was, but for a wakeup.
LEMMA WaitingWoken ==
    ASSUME TypeOK, Waiting, block' = block \/ block' = [block EXCEPT !.ready = TRUE],
           wakers' \subseteq wakers
    PROVE  /\ Waiting'
           /\ block'.at = block.at /\ block'.op = block.op /\ block'.on = block.on
           /\ block'.wait = block.wait /\ block'.fork = block.fork
  <1>1. /\ block'.at = block.at /\ block'.op = block.op /\ block'.on = block.on
        /\ block'.wait = block.wait /\ block'.fork = block.fork
        /\ block.ready => block'.ready
    BY BlockFields
  <1> QED
    BY <1>1 DEF Waiting

\* A callback moves the block nowhere; at most it wakes it.
LEMMA WaitingCallback ==
    ASSUME TypeOK, Waiting, Driving, RunCallback
    PROVE  Waiting' /\ Driving'
  <1>1. UNCHANGED <<cpu, closed>>
    BY DEF RunCallback, RunResume, RunRequest, RunMark, RunRoute, RunCancel, flags
  <1>2. /\ block' = block \/ block' = [block EXCEPT !.ready = TRUE]
        /\ wakers' \subseteq wakers
    BY DEF RunCallback, RunResume, RunRequest, RunMark, RunRoute, RunCancel, MarkRunnable,
           FireWakers, host
  <1> QED
    BY <1>1, <1>2, WaitingWoken DEF Driving

\* A child moves the block nowhere, and gives control back to it.
LEMMA WaitingTask ==
    ASSUME TypeOK, Waiting, Driving, NEW t \in Tasks, TaskStep(t)
    PROVE  Waiting' /\ Driving'
  <1>1. UNCHANGED <<block, closed, wakers>>
    BY DEF TaskStep, Enter, WakeCancelled, WakeEarly, WakeReady, WakeLender, WakeDrained, BodyReturns,
           BodyFails, Unwinds, Catch, ParkExternally, Checkpoint, AwaitReturns, AwaitForkReturns,
           CancelScope, DrainNested, Spawn, Await, CancelTask, Work, AwaitFork, CancelFork, Finish,
           CancelImpl, flags, host
  <1>2. cpu' \in {cpu, Block}
    BY DEF TaskStep, Enter, WakeCancelled, WakeEarly, WakeReady, WakeLender, WakeDrained, BodyReturns,
           BodyFails, Unwinds, Catch, ParkExternally, Checkpoint, AwaitReturns, AwaitForkReturns,
           CancelScope, DrainNested, Spawn, Await, CancelTask, Work, AwaitFork, CancelFork, Finish, Lend
  <1>3. Block \notin Tasks \union {Host}
    BY TasksAssumption DEF Block, Host
  <1> QED
    BY <1>1, <1>2, <1>3 DEF Waiting, Driving

\* Each step of the block leads where its operation goes next.
LEMMA WaitingBlock ==
    ASSUME TypeOK, Waiting, Driving, Starting, Listed, BlockStep
    PROVE  Waiting' /\ Driving'
  <1>1. Block \notin Tasks \union {Host} /\ Host \notin Tasks
    BY TasksAssumption DEF Block, Host
  <1> USE BlockFields DEF Away, PumpOps, ReplyOps
  <1>2. CASE \/ \E u \in Tasks : BlockSpawn(u) \/ BlockAwait(u) \/ BlockCancelTask(u)
             \/ \E w \in Forks : BlockWork(w) \/ BlockAwaitFork(w) \/ BlockCancelFork(w)
             \/ BlockParks \/ BlockCancelScope \/ BlockCheckpoint \/ BlockCloses
    <2>1. cpu = Block /\ block.at = "run" /\ UNCHANGED <<cpu, closed, wakers>>
      BY <1>2 DEF BlockSpawn, BlockAwait, BlockCancelTask, BlockWork, BlockAwaitFork, BlockCancelFork,
                  BlockParks, BlockCancelScope, BlockCheckpoint, BlockCloses, BlockDoes, BlockRuns,
                  flags, host
    <2>2. \/ block' = block \/ block' = Running
          \/ \E u : block' = Doing("slot", "spawn", u) \/ block' = Doing("slot", "work", u)
          \/ \E u : block' = Doing("pump", "await", u)
          \/ \E w : block' = [Doing("reply", "fork", 0) EXCEPT !.fork = w]
          \/ block' = [Doing("drive", "ext", 0) EXCEPT !.wait = "ext"]
          \/ block' = Doing("pump", "drain", 0)
      BY <1>2 DEF BlockSpawn, BlockAwait, BlockCancelTask, BlockWork, BlockAwaitFork, BlockCancelFork,
                  BlockParks, BlockCancelScope, BlockCheckpoint, BlockCloses
    <2>3. block.wait = "none" /\ "park" \notin wakers
      BY <2>1 DEF Waiting
    <2>4. Waiting'
      BY <2>1, <2>2, <2>3 DEF Waiting, Doing, Running
    <2> QED
      BY <1>1, <2>1, <2>4 DEF Driving
  <1>3. CASE SlotTaken
    <2>1. cpu = Block /\ block.at = "slot" /\ UNCHANGED <<cpu, closed, wakers>> /\ block' = Running
      BY <1>3 DEF SlotTaken, BlockRuns, flags, host
    <2> QED
      BY <1>1, <2>1 DEF Driving, Waiting, Running, Doing
  <1>4. CASE SlotWanted \/ PumpPass \/ DrivePass \/ WorkersDrain
    <2>1. cpu = Block /\ UNCHANGED <<cpu, closed, wakers>>
      BY <1>4 DEF SlotWanted, PumpPass, DrivePass, WorkersDrain, BlockRuns, flags, host
    <2>2. \/ block.at = "slot" /\ block' = [block EXCEPT !.at = "pump"]
          \/ block.at = "slot" /\ \E f : block' = [block EXCEPT !.at = "reply", !.fork = f]
          \/ block.at = "workers" /\ \E f : block' = [block EXCEPT !.at = "reply", !.fork = f]
          \/ block.at = "pump" /\ block' = [block EXCEPT !.at = "pumping"]
          \/ block.at = "drive" /\ block' = [block EXCEPT !.at = IF block.ready THEN "leaving" ELSE "driving"]
      BY <1>4 DEF SlotWanted, PumpPass, DrivePass, WorkersDrain, BlockRuns
    <2>3. block.at = "slot" => block.op \in {"spawn", "work"}
      BY DEF TypeOK, BlockOK
    <2>4. Waiting'
      BY <2>1, <2>2, <2>3 DEF Waiting
    <2> QED
      BY <1>1, <2>1, <2>2, <2>4 DEF Driving
  <1>5. CASE PumpReturns
    <2>1. cpu = Block /\ block.at = "pump" /\ UNCHANGED <<cpu, closed, wakers>>
      BY <1>5 DEF PumpReturns, BlockRuns, flags, host
    <2>2. \/ block' = Running
          \/ block.op \in {"spawn", "work"} /\ block' = [block EXCEPT !.at = "slot"]
          \/ block.op = "drain" /\ block' = [block EXCEPT !.at = "workers"]
      BY <1>5, <2>1 DEF PumpReturns, Waiting
    <2>3. Waiting'
      BY <2>1, <2>2 DEF Waiting, Running, Doing
    <2> QED
      BY <1>1, <2>1, <2>3 DEF Driving
  <1>6. CASE PumpParks \/ PumpDefers
    <2>1. cpu = Block /\ block.at = "pumping" /\ UNCHANGED <<cpu, closed>>
      BY <1>6 DEF PumpParks, PumpDefers, BlockRuns, flags, host
    <2>2. \/ /\ wakers' = wakers \union {"park"}
             /\ block' = [block EXCEPT !.at = "drive", !.wait = "scope", !.ready = FALSE]
          \/ /\ UNCHANGED wakers
             /\ block' = [block EXCEPT !.at = "drive", !.wait = "turn", !.ready = FALSE]
      BY <1>6 DEF PumpParks, PumpDefers, host
    <2>3. Waiting'
      BY <2>1, <2>2 DEF Waiting
    <2> QED
      BY <1>1, <2>1, <2>3 DEF Driving
  <1>7. CASE PumpResumes \/ DriveResumes
    <2>1. cpu = Block /\ UNCHANGED <<closed, wakers>> /\ cpu' = Head(queue)
      BY <1>7 DEF PumpResumes, DriveResumes, ResumeChild, BlockRuns, flags
    <2>2. \/ block.at = "pumping" /\ block' = [block EXCEPT !.at = "pump"]
          \/ block.at = "driving" /\ block' = [block EXCEPT !.at = "drive"]
      BY <1>7 DEF PumpResumes, DriveResumes, BlockRuns
    <2>3. Head(queue) \in Tasks
      BY <1>7 DEF PumpResumes, DriveResumes, Listed, LiveTasks
    <2>4. Waiting'
      BY <2>1, <2>2 DEF Waiting
    <2> QED
      BY <1>1, <2>1, <2>2, <2>3, <2>4 DEF Driving
  <1>8. CASE DriveRaises
    <2>1. cpu = Block /\ UNCHANGED <<cpu, closed>> /\ block' = Running /\ wakers' = {}
          /\ block.at \in {"driving", "leaving"}
      BY <1>8 DEF DriveRaises, BlockRuns, Abandon, flags
    <2>2. Waiting'
      BY <2>1 DEF Waiting, Running, Doing
    <2> QED
      BY <1>1, <2>1, <2>2 DEF Driving
  <1>9. CASE DriveParks
    <2>1. /\ cpu = Block /\ block.at = "driving" /\ UNCHANGED <<closed, wakers>> /\ cpu' = Host
          /\ block' = [block EXCEPT !.at = "out"]
      BY <1>9 DEF DriveParks, BlockRuns, flags
    <2>2. Waiting'
      BY <2>1 DEF Waiting
    <2> QED
      BY <1>1, <2>1, <2>2 DEF Driving
  <1>10. CASE DriveLeaves
    <2>1. cpu = Block /\ block.at = "leaving" /\ UNCHANGED <<cpu, closed>> /\ wakers' = {}
      BY <1>10 DEF DriveLeaves, BlockRuns, flags
    <2>2. \/ block' = Running
          \/ block.wait = "reply" /\ block' = [block EXCEPT !.at = "reply", !.wait = "none"]
          \/ block.wait \in {"scope", "turn"} /\ block' = [block EXCEPT !.at = "pump", !.wait = "none"]
      <3>1. block.wait \in {"scope", "turn", "ext", "reply"}
        BY <2>1 DEF Waiting, TypeOK, BlockOK
      <3> QED
        BY <1>10, <3>1 DEF DriveLeaves
    <2>3. Waiting'
      <3>1. CASE block' = Running
        BY <2>1, <3>1 DEF Waiting, Running, Doing
      <3>2. CASE block.wait = "reply" /\ block' = [block EXCEPT !.at = "reply", !.wait = "none"]
        <4>1. block'.at = "reply" /\ block'.wait = "none" /\ block'.op = block.op
          BY <3>2
        <4> QED
          BY <2>1, <3>2, <4>1 DEF Waiting
      <3>3. CASE /\ block.wait \in {"scope", "turn"}
                 /\ block' = [block EXCEPT !.at = "pump", !.wait = "none"]
        <4>1. block'.at = "pump" /\ block'.wait = "none" /\ block'.op = block.op
          BY <3>3
        <4> QED
          BY <2>1, <3>3, <4>1 DEF Waiting
      <3> QED
        BY <2>2, <3>1, <3>2, <3>3
    <2> QED
      BY <1>1, <2>1, <2>3 DEF Driving
  <1>11. CASE ReplyAwaited
    <2>1. /\ cpu = Block /\ block.at = "reply" /\ UNCHANGED <<cpu, closed, wakers>>
          /\ block' = [block EXCEPT !.at = "drive", !.wait = "reply", !.ready = FALSE]
      BY <1>11 DEF ReplyAwaited, BlockRuns, flags, host
    <2>2. Waiting'
      BY <2>1 DEF Waiting
    <2> QED
      BY <1>1, <2>1, <2>2 DEF Driving
  <1>12. CASE ReplyTaken
    <2>1. cpu = Block /\ block.at = "reply" /\ UNCHANGED <<cpu, closed, wakers>>
      BY <1>12 DEF ReplyTaken, BlockRuns, flags, host
    <2>2. \/ block' = Running
          \/ block.op \in {"spawn", "work"} /\ block' = [block EXCEPT !.at = "slot"]
          \/ block.op = "drain" /\ block' = [block EXCEPT !.at = "workers"]
      BY <1>12, <2>1 DEF ReplyTaken, Waiting
    <2>3. Waiting'
      BY <2>1, <2>2 DEF Waiting, Running, Doing
    <2> QED
      BY <1>1, <2>1, <2>3 DEF Driving
  <1>13. CASE ScopeCloses
    <2>1. cpu = Block /\ block.at = "workers" /\ UNCHANGED <<cpu, wakers>>
          /\ block' = Doing("done", "none", 0)
      BY <1>13 DEF ScopeCloses, BlockRuns, host
    <2>2. Waiting'
      BY <2>1 DEF Waiting, Doing
    <2> QED
      BY <1>1, <2>1, <2>2 DEF Driving, Doing
  <1> QED
    BY <1>2, <1>3, <1>4, <1>5, <1>6, <1>7, <1>8, <1>9, <1>10, <1>11, <1>12, <1>13 DEF BlockStep

\* The host gives control back where the block left it.
LEMMA WaitingRest ==
    ASSUME TypeOK, Waiting, Driving,
           HostStep \/ (\E w \in Forks : LaneStep(w)) \/ ClockPasses \/ UNCHANGED vars
    PROVE  Waiting' /\ Driving'
  <1>1. CASE \/ BlockReady \/ NextTurn \/ (\E t \in Tasks : ExternalReady(t))
             \/ (\E w \in Forks : RouteReply(w) \/ LaneStep(w)) \/ ClockPasses \/ UNCHANGED vars
    <2>1. UNCHANGED <<block, wakers, cpu, closed>>
      BY <1>1 DEF BlockReady, NextTurn, ExternalReady, RouteReply, LaneStep, LaneStarts, LaneFinishes,
                  LaneReplies, ClockPasses, vars, flags, host
    <2> QED
      BY <2>1 DEF Waiting, Driving
  <1>2. CASE HostResumes
    <2>1. /\ cpu = Host /\ cpu' = Block /\ block' = [block EXCEPT !.at = "drive"] /\ UNCHANGED closed
          /\ wakers' \subseteq wakers
      BY <1>2 DEF HostResumes, HostRuns, flags
    <2>2. block.at = "out" /\ Block \notin Tasks \union {Host}
      BY <2>1, TasksAssumption DEF Driving, Block, Host
    <2>3. Waiting'
      BY <2>1, <2>2, BlockFields DEF Waiting, Away
    <2> QED
      BY <2>1, <2>2, <2>3 DEF Driving
  <1>3. CASE HostArms
    <2>1. UNCHANGED <<block, cpu, closed>> /\ wakers' = wakers \union {"arm"}
      BY <1>3 DEF HostArms, flags
    <2> QED
      BY <2>1 DEF Waiting, Driving
  <1>4. CASE TimerFires
    <2>1. /\ block' = block \/ block' = [block EXCEPT !.ready = TRUE]
          /\ wakers' \subseteq wakers /\ UNCHANGED <<cpu, closed>>
      BY <1>4 DEF TimerFires, FireWakers, flags
    <2> QED
      BY <2>1, WaitingWoken DEF Driving
  <1> QED
    BY <1>1, <1>2, <1>3, <1>4 DEF HostStep

\* Where only the block's place, wait, worker task or wakeup changes.
BlockGoesOn ==
    /\ block'.op = block.op /\ block'.on = block.on
    /\ block'.at \notin {"run", "done"}
    /\ UNCHANGED <<status, fork>>

\* The block goes on with what it is starting.
LEMMA StartingGoesOn ==
    ASSUME TypeOK, Starting, BlockGoesOn
    PROVE  Starting'
  BY StartingSame DEF BlockGoesOn

\* The block starts one child or worker task at a time, and what it gives up is refused.
LEMMA StartingBlock ==
    ASSUME TypeOK, Starting, Waiting, Listed, BlockStep
    PROVE  Starting'
  <1>1. status \in [Tasks -> Statuses]
    BY DEF TypeOK, ScheduleOK
  <1>2. CASE \E u \in Tasks : BlockSpawn(u)
    <2> PICK u \in Tasks : BlockSpawn(u)
      BY <1>2
    <2>1. block.op = "none" /\ block.at = "run" /\ UNCHANGED fork /\ status[u] = "new"
      BY DEF BlockSpawn, BlockDoes, BlockRuns, NextTask, Starting, lanes
    <2>2. CASE ScopeRaises
      BY <1>1, <2>1, <2>2, StartingSame DEF BlockSpawn, RefuseBody
    <2>3. CASE ~ScopeRaises
      BY <1>1, <2>1, <2>3 DEF BlockSpawn, Doing, Starting
    <2> QED
      BY <2>2, <2>3
  <1>3. CASE \E w \in Forks : BlockWork(w)
    <2> PICK w \in Forks : BlockWork(w)
      BY <1>3
    <2>1. block.op = "none" /\ block.at = "run" /\ UNCHANGED status /\ fork[w].task = "new"
      BY DEF BlockWork, BlockDoes, BlockRuns, NextFork, Starting, schedule
    <2>2. CASE ScopeRaises
      BY <2>1, <2>2, StartingSame DEF BlockWork
    <2>3. CASE ~ScopeRaises
      <3>1. \A v \in Forks : fork'[v].task = "admitting" <=> v = w
        <4>1. fork'[w].task = "admitting" /\ \A v \in Forks \ {w} : fork'[v] = fork[v]
          BY <2>3, ForkFields DEF BlockWork
        <4> QED
          BY <2>1, <4>1 DEF Starting
      <3> QED
        BY <2>1, <2>3, <3>1 DEF BlockWork, Doing, Starting
    <2> QED
      BY <2>2, <2>3
  <1>4. CASE \/ \E u \in Tasks : BlockAwait(u)
             \/ \E w \in Forks : BlockAwaitFork(w)
             \/ BlockParks \/ BlockCloses
    <2>1. block.op = "none" /\ UNCHANGED <<status, fork>>
      BY <1>4 DEF BlockAwait, BlockAwaitFork, BlockParks, BlockCloses, BlockDoes, BlockRuns,
                  Starting, schedule, lanes
    <2>2. \/ block' = block \/ block' = Running
          \/ \E u : block' = Doing("pump", "await", u)
          \/ \E w : block' = [Doing("reply", "fork", 0) EXCEPT !.fork = w]
          \/ block' = [Doing("drive", "ext", 0) EXCEPT !.wait = "ext"]
          \/ block' = Doing("pump", "drain", 0)
      BY <1>4 DEF BlockAwait, BlockAwaitFork, BlockParks, BlockCloses
    <2>3. /\ block'.op \notin {"spawn", "work"}
          /\ block'.at \in {"run", "done"} => block'.op = "none"
      BY <2>1, <2>2 DEF Doing, Running, Starting
    <2> QED
      BY <2>1, <2>3 DEF Starting
  <1>5. CASE \E u \in Tasks : BlockCancelTask(u)
    <2>1. UNCHANGED <<block, fork>>
      BY <1>5 DEF BlockCancelTask, lanes
    <2>2. \A u \in Tasks : status'[u] = "admitting" <=> status[u] = "admitting"
      BY <1>1, <1>5 DEF BlockCancelTask, CancelChild, SettleChild
    <2> QED
      BY <2>1, <2>2, StartingSame DEF Starting
  <1>6. CASE (\E w \in Forks : BlockCancelFork(w)) \/ BlockCancelScope \/ BlockCheckpoint
    <2>1. UNCHANGED <<block, status, fork>>
      BY <1>6 DEF BlockCancelFork, BlockCancelScope, BlockCheckpoint, schedule, lanes
    <2> QED
      BY <2>1, StartingSame DEF Starting
  <1>7. CASE SlotTaken
    <2>1. block'.op = "none"
      BY <1>7 DEF SlotTaken, Running, Doing
    <2>2. \A u \in Tasks : status'[u] # "admitting"
      <3>1. \/ status' = status /\ block.op # "spawn"
            \/ block.op = "spawn" /\ status' = [status EXCEPT ![block.on] = "queued"]
            \/ block.op = "spawn" /\ status' = [status EXCEPT ![block.on] = "refused"]
        BY <1>7 DEF SlotTaken, Register, BlockRefused, RefuseBody
      <3> QED
        BY <1>1, <3>1 DEF Starting
    <2>3. \A v \in Forks : fork'[v].task # "admitting"
      <3>1. \/ fork' = fork /\ block.op # "work"
            \/ fork' = [fork EXCEPT ![block.on].task = "refused"] /\ block.op # "spawn"
            \/ Submit(block.on, Block) /\ block.op # "spawn"
        BY <1>7 DEF SlotTaken, BlockRefused, BlockRuns, TypeOK, BlockOK, lanes
      <3>2. block.op # "spawn" => block.on \in Forks /\ block.op = "work"
        BY <1>7 DEF SlotTaken, BlockRuns, TypeOK, BlockOK
      <3>3. CASE fork' = fork /\ block.op # "work"
        BY <3>3 DEF Starting
      <3>4. CASE fork' = [fork EXCEPT ![block.on].task = "refused"] /\ block.op # "spawn"
        <4>1. fork'[block.on].task = "refused" /\ \A v \in Forks \ {block.on} : fork'[v] = fork[v]
          BY <3>2, <3>4, TaskFork
        <4> QED
          BY <3>2, <3>4, <4>1 DEF Starting
      <3>5. CASE Submit(block.on, Block) /\ block.op # "spawn"
        <4>1. fork'[block.on].task = "queued" /\ \A v \in Forks \ {block.on} : fork'[v] = fork[v]
          BY <3>2, <3>5, SubmitFork
        <4> QED
          BY <3>2, <3>5, <4>1 DEF Starting
      <3> QED
        BY <3>1, <3>3, <3>4, <3>5
    <2> QED
      BY <2>1, <2>2, <2>3, StartingOver
  <1>8. CASE SlotWanted \/ PumpPass \/ PumpParks \/ PumpDefers \/ DrivePass \/ DriveParks
             \/ WorkersDrain
    <2>1. UNCHANGED <<status, fork>>
      BY <1>8 DEF SlotWanted, PumpPass, PumpParks, PumpDefers, DrivePass, DriveParks, WorkersDrain,
                  schedule, lanes
    <2>2. \/ \E p \in {"pump", "pumping", "driving", "leaving", "out"} : block' = [block EXCEPT !.at = p]
          \/ \E f : block' = [block EXCEPT !.at = "reply", !.fork = f]
          \/ \E v : block' = [block EXCEPT !.at = "drive", !.wait = v, !.ready = FALSE]
      BY <1>8 DEF SlotWanted, PumpPass, PumpParks, PumpDefers, DrivePass, DriveParks, WorkersDrain
    <2>3. BlockGoesOn
      BY <2>1, <2>2, BlockFields DEF BlockGoesOn
    <2> QED
      BY <2>3, StartingGoesOn
  <1>9. CASE PumpResumes \/ DriveResumes
    <2>1. /\ UNCHANGED fork /\ status' = [status EXCEPT ![Head(queue)] = "running"]
          /\ \E p \in {"pump", "drive"} : block' = [block EXCEPT !.at = p]
      BY <1>9 DEF PumpResumes, DriveResumes, ResumeChild, lanes
    <2>2. Head(queue) \in LiveTasks
      BY <1>9 DEF PumpResumes, DriveResumes, Listed
    <2>3. \A u \in Tasks : status'[u] = "admitting" <=> status[u] = "admitting"
      BY <1>1, <2>1, <2>2 DEF LiveTasks, Live
    <2>4. block'.op = block.op /\ block'.on = block.on /\ block'.at \notin {"run", "done"}
      BY <2>1, BlockFields
    <2> QED
      BY <2>1, <2>3, <2>4, StartingSame
  <1>10. CASE PumpReturns \/ DriveLeaves \/ ReplyTaken
    <2>1. UNCHANGED <<status, fork>>
      BY <1>10 DEF PumpReturns, DriveLeaves, ReplyTaken, schedule, lanes
    <2>2. \/ /\ block' = Running
             /\ block.op = "await" \/ block.op = "fork" \/ (block.wait = "ext" /\ BlockRuns("leaving"))
          \/ \E p \in {"slot", "workers"} : block' = [block EXCEPT !.at = p]
          \/ \E p \in {"reply", "pump"} : block' = [block EXCEPT !.at = p, !.wait = "none"]
      BY <1>10 DEF PumpReturns, DriveLeaves, ReplyTaken
    <2>3. CASE \/ \E p \in {"slot", "workers"} : block' = [block EXCEPT !.at = p]
               \/ \E p \in {"reply", "pump"} : block' = [block EXCEPT !.at = p, !.wait = "none"]
      <3>1. BlockGoesOn
        BY <2>1, <2>3, BlockFields DEF BlockGoesOn
      <3> QED
        BY <3>1, StartingGoesOn
    <2>4. CASE block' = Running /\ block.op \notin {"spawn", "work"}
      BY <2>1, <2>4, StartingOver DEF Running, Doing, Starting
    <2>5. block.wait = "ext" => block.op \notin {"spawn", "work"}
      BY DEF Waiting
    <2> QED
      BY <2>2, <2>3, <2>4, <2>5
  <1>11. CASE DriveRaises
    <2>1. Abandon
      BY <1>11 DEF DriveRaises
    <2>2. \A u \in Tasks : status'[u] # "admitting"
      <3>1. \/ status' = status /\ block.op # "spawn"
            \/ block.op = "spawn" /\ status' = [status EXCEPT ![block.on] = "refused"]
        BY <2>1 DEF Abandon, RefuseBody
      <3> QED
        BY <1>1, <3>1 DEF Starting
    <2>3. \A v \in Forks : fork'[v].task # "admitting"
      BY <2>1, AbandonFork DEF Starting
    <2>4. block'.op = "none"
      BY <2>1 DEF Abandon, Running, Doing
    <2> QED
      BY <2>2, <2>3, <2>4, StartingOver
  <1>12. CASE ReplyAwaited
    <2>1. /\ UNCHANGED status /\ block.at = "reply"
          /\ block' = [block EXCEPT !.at = "drive", !.wait = "reply", !.ready = FALSE]
      BY <1>12 DEF ReplyAwaited, BlockRuns, schedule
    <2>2. \A v \in Forks : fork'[v].task = fork[v].task
      BY <1>12, ForkFields DEF ReplyAwaited
    <2>3. block'.op = block.op /\ block'.on = block.on /\ block'.at = "drive"
      BY <2>1, BlockFields
    <2> QED
      BY <2>1, <2>2, <2>3, StartingSame
  <1>13. CASE ScopeCloses
    <2>1. block'.op = "none" /\ UNCHANGED <<status, fork>>
      BY <1>13 DEF ScopeCloses, Doing, schedule, lanes
    <2> QED
      BY <1>13, <2>1, StartingOver DEF ScopeCloses, BlockRuns, Starting, Waiting
  <1> QED
    BY <1>2, <1>3, <1>4, <1>5, <1>6, <1>7, <1>8, <1>9, <1>10, <1>11, <1>12, <1>13 DEF BlockStep

\* The host, the lanes and the clock leave alone what the block is starting.
LEMMA StartingRest ==
    ASSUME TypeOK, Starting, Driving,
           HostStep \/ (\E w \in Forks : LaneStep(w)) \/ ClockPasses \/ UNCHANGED vars
    PROVE  Starting'
  <1>1. UNCHANGED status
    BY DEF HostStep, HostResumes, HostArms, BlockReady, TimerFires, NextTurn, ExternalReady, RouteReply,
           LaneStep, LaneStarts, LaneFinishes, LaneReplies, ClockPasses, vars, schedule
  <1>2. \A v \in Forks : fork'[v].task = fork[v].task
    <2>1. CASE \E w \in Forks : LaneStep(w)
      BY <2>1, LaneFork
    <2>2. CASE HostStep \/ ClockPasses \/ UNCHANGED vars
      BY <2>2 DEF HostStep, HostResumes, HostArms, BlockReady, TimerFires, NextTurn, ExternalReady,
                  RouteReply, ClockPasses, vars, lanes
    <2> QED
      BY <2>1, <2>2
  <1>3. /\ block'.op = block.op /\ block'.on = block.on
        /\ block'.at \in {"run", "done"} => block'.at = block.at
    <2>1. CASE HostResumes
      <3>1. block' = [block EXCEPT !.at = "drive"]
        BY <2>1 DEF HostResumes
      <3> QED
        BY <3>1, BlockFields
    <2>2. CASE TimerFires
      BY <2>2, BlockFields DEF TimerFires
    <2>3. CASE ~(HostResumes \/ TimerFires)
      <3>1. UNCHANGED block
        BY <2>3 DEF HostStep, HostArms, BlockReady, NextTurn, ExternalReady, RouteReply,
                    LaneStep, LaneStarts, LaneFinishes, LaneReplies, ClockPasses, vars
      <3> QED
        BY <3>1
    <2> QED
      BY <2>1, <2>2, <2>3
  <1> QED
    BY <1>1, <1>2, <1>3, StartingSame DEF Starting

-----------------------------------------------------------------------------
(* The invariant *)

\* Everything this module says of a reachable state.
LifeInv ==
    /\ TypeOK /\ Lives /\ CpuLive /\ Starting /\ Waiting /\ Driving /\ Listed /\ Known

\* The first state.
LEMMA LifeInit == Init => LifeInv
  <1> SUFFICES ASSUME Init PROVE LifeInv
    OBVIOUS
  <1>1. TypeOK
    BY InitType
  <1>2. Lives
    BY DEF Init, Lives, Life
  <1>3. Block \notin Tasks \union {Host} /\ Host \notin Tasks
    BY TasksAssumption DEF Block, Host
  <1>4. CpuLive /\ Driving
    BY <1>3 DEF Init, CpuLive, Driving
  <1>5. Starting
    BY DEF Init, Starting
  <1>6. Waiting
    BY DEF Init, Waiting, Away
  <1>7. Listed
    <2>1. queue = <<>> /\ list = <<>> /\ \A t \in Tasks : ~Live(t)
      BY DEF Init, Live
    <2>2. Distinct(<<>>) /\ <<>> \in Seq(LiveTasks)
      BY DEF Distinct
    <2> QED
      BY <2>1, <2>2 DEF Listed
  <1>8. Known
    BY DEF Init, Known
  <1> QED
    BY <1>1, <1>2, <1>4, <1>5, <1>6, <1>7, <1>8 DEF LifeInv

\* Every step keeps the invariant, and does to the children what Kinds says.
LEMMA LifeNext ==
    ASSUME LifeInv, [Next]_vars
    PROVE  LifeInv' /\ Kinds
  <1> USE DEF LifeInv
  <1>1. Kinds
    BY KindsNext
  <1>2. queue \in Seq({t \in Tasks : Live(t)})
    BY DEF Listed, LiveTasks
  <1>3. Waiting' /\ Driving'
    BY WaitingCallback, WaitingTask, WaitingBlock, WaitingRest DEF Next
  <1>4. Starting'
    BY StartingCallback, StartingTask, StartingBlock, StartingRest DEF Next
  <1> QED
    BY <1>1, <1>2, <1>3, <1>4, NextType, KindsLife, KindsCpu, KindsListed, KnownNext

\* In every behaviour of the scope.
LEMMA LifeAlways == Spec => []LifeInv
  BY LifeInit, LifeNext, PTL DEF Spec

\* The list holds every live child once and nothing else, and the queue only
\* live children, each once: for every scope, no settled child is resumed and
\* none is counted twice.
THEOREM MembersListed == Spec => []Membership
  <1>1. LifeInv => Membership
    BY ListedMembership DEF LifeInv
  <1> QED
    BY <1>1, LifeAlways, PTL

\* A body is called or dropped, never both and never neither.
LEMMA LifeBodies == LifeInv => BodyOnce
  <1> SUFFICES ASSUME LifeInv, NEW t \in Tasks
               PROVE  /\ Ended(t) \/ status[t] = "refused" => body[t] \in {"called", "released"}
                      /\ body[t] = "released" => act[t].at \in {"new", "over"} /\ ~Live(t)
                      /\ body[t] = "called" => act[t].at # "new"
    BY DEF BodyOnce
  <1>1. Life(t)
    BY DEF LifeInv, Lives
  <1>2. "new" \notin Inside
    BY DEF Inside, Waits
  <1> QED
    BY <1>1, <1>2 DEF Life, Ended, Ends, Live


\* A child that has settled stays as it is.
LEMMA ChildrenSettleOnce ==
    ASSUME LifeInv, Kinds, NEW t \in Tasks, Ended(t)
    PROVE  status'[t] = status[t]
  <1>1. status \in [Tasks -> Statuses] /\ ~Live(t) /\ status[t] \notin {"new", "admitting", "running"}
    BY DEF LifeInv, TypeOK, ScheduleOK, Ended, Ends, Live
  <1>2. CASE Stays
    BY <1>2 DEF Stays
  <1>3. CASE Resumes
    <2>1. Head(queue) \in LiveTasks
      BY <1>3 DEF Resumes, LifeInv, Listed
    <2> QED
      BY <1>1, <1>3, <2>1 DEF Resumes, LiveTasks
  <1>4. ASSUME NEW u \in Tasks, Registers(u) \/ Refuses(u) \/ Admits(u) \/ Enters(u)
        PROVE  status'[t] = status[t]
    BY <1>1, <1>4 DEF Registers, Refuses, Admits, Enters
  <1>5. ASSUME NEW u \in Tasks, NEW st \in Ends, Settles(u, st) PROVE status'[t] = status[t]
    BY <1>1, <1>5 DEF Settles
  <1> QED
    BY <1>2, <1>3, <1>4, <1>5 DEF Kinds

\* So does a worker task.
LEMMA ForksSettleOnce ==
    ASSUME LifeInv, [Next]_vars, NEW v \in Forks, fork[v].task \in Ends
    PROVE  fork'[v].task = fork[v].task
  <1> USE DEF LifeInv
  <1>1. fork[v].task \notin {"new", "admitting", "queued"}
    BY DEF Ends
  <1>2. CASE RunCallback
    <2>1. ASSUME NEW w \in Forks, Route(w) PROVE fork'[v].task = fork[v].task
      BY <1>1, <2>1, RouteFork
    <2>2. CASE RunRoute
      <3>1. Head(owed).who \in Forks
        BY <2>2, ControlTypes, HeadCallback, CallbackShape DEF RunRoute
      <3> QED
        BY <2>1, <2>2, <3>1 DEF RunRoute, lanes
    <2>3. CASE RunCancel
      BY <1>1, <2>1, <2>3, RunCancelFork
    <2>4. CASE RunResume \/ RunRequest \/ RunMark
      BY <2>4 DEF RunResume, RunRequest, RunMark, lanes
    <2> QED
      BY <1>2, <2>2, <2>3, <2>4 DEF RunCallback
  <1>3. CASE \E t \in Tasks : TaskStep(t)
    <2> PICK t \in Tasks : TaskStep(t)
      BY <1>3
    <2>1. CASE WakeCancelled(t)
      BY <2>1, WakeCancelledFork
    <2>2. CASE AwaitForkReturns(t)
      <3>1. fork' = fork \/ fork' = [fork EXCEPT ![act[t].on].waiter = t]
        BY <2>2 DEF AwaitForkReturns
      <3> QED
        BY <3>1, ForkFields
    <2>3. CASE \E w \in Forks : Work(t, w)
      <3> PICK w \in Forks : Work(t, w)
        BY <2>3
      <3>1. fork[w].task = "new" /\ (Submit(w, t) \/ UNCHANGED fork)
        BY DEF Work, NextFork, lanes
      <3> QED
        BY <1>1, <3>1, SubmitFork
    <2>4. CASE ~(WakeCancelled(t) \/ AwaitForkReturns(t) \/ \E w \in Forks : Work(t, w))
      BY <2>4 DEF TaskStep, Enter, WakeEarly, WakeReady, WakeLender, WakeDrained, BodyReturns,
           BodyFails, Unwinds, Catch, ParkExternally, Checkpoint, AwaitReturns, CancelScope,
           DrainNested, Spawn, Await, CancelTask, AwaitFork, CancelFork, Finish, lanes
    <2> QED
      BY <2>1, <2>2, <2>3, <2>4
  <1>4. CASE BlockStep
    <2>1. CASE \E w \in Forks : BlockWork(w)
      <3> PICK w \in Forks : BlockWork(w)
        BY <2>1
      <3>1. v # w /\ (fork' = fork \/ fork' = [fork EXCEPT ![w].task = "admitting"])
        BY <1>1 DEF BlockWork, NextFork
      <3> QED
        BY <3>1, ForkFields
    <2>2. CASE SlotTaken
      <3>1. \/ fork' = fork
            \/ block.op # "spawn" /\ fork' = [fork EXCEPT ![block.on].task = "refused"]
            \/ block.op # "spawn" /\ Submit(block.on, Block)
        BY <2>2 DEF SlotTaken, BlockRefused, lanes
      <3>2. block.op # "spawn" => block.op = "work" /\ block.on \in Forks
        BY <2>2 DEF SlotTaken, BlockRuns, TypeOK, BlockOK
      <3>3. block.op = "work" => v # block.on
        BY <1>1 DEF Starting
      <3> QED
        BY <3>1, <3>2, <3>3, ForkFields DEF Submit
    <2>3. CASE DriveRaises
      <3>1. Abandon /\ ~(block.op = "work" /\ block.on = v)
        BY <1>1, <2>3 DEF DriveRaises, Starting
      <3> QED
        BY <3>1, AbandonFork
    <2>4. CASE ReplyAwaited
      BY <2>4, ForkFields DEF ReplyAwaited
    <2>5. CASE ~((\E w \in Forks : BlockWork(w)) \/ SlotTaken \/ DriveRaises \/ ReplyAwaited)
      BY <1>4, <2>5 DEF BlockStep, BlockSpawn, BlockAwait, BlockCancelTask, BlockAwaitFork,
           BlockCancelFork, BlockParks, BlockCancelScope, BlockCheckpoint, BlockCloses, SlotWanted,
           PumpReturns, PumpPass, PumpResumes, PumpParks, PumpDefers, DrivePass, DriveResumes,
           DriveParks, DriveLeaves, ReplyTaken, WorkersDrain, ScopeCloses, lanes
    <2> QED
      BY <2>1, <2>2, <2>3, <2>4, <2>5
  <1>5. CASE HostStep \/ ClockPasses \/ UNCHANGED vars
    BY <1>5 DEF HostStep, HostResumes, HostArms, BlockReady, TimerFires, NextTurn, ExternalReady,
                RouteReply, ClockPasses, vars, lanes
  <1>6. CASE \E w \in Forks : LaneStep(w)
    BY <1>6, LaneFork
  <1> QED
    BY <1>2, <1>3, <1>4, <1>5, <1>6 DEF Next

\* Nobody's body is called who was asked to stop before.
LEMMA AskedNeverCalled ==
    ASSUME LifeInv, Kinds, NEW t \in Tasks, t \in requested, body[t] # "called"
    PROVE  body'[t] # "called"
  <1>1. body \in [Tasks -> {"none", "held", "called", "released"}]
    BY DEF LifeInv, TypeOK, ScheduleOK
  <1>2. ASSUME NEW u \in Tasks, Registers(u) \/ Refuses(u) \/ Admits(u) \/ Enters(u)
        PROVE  body'[t] # "called"
    BY <1>1, <1>2 DEF Registers, Refuses, Admits, Enters
  <1>3. ASSUME NEW u \in Tasks, NEW st \in Ends, Settles(u, st) PROVE body'[t] # "called"
    BY <1>1, <1>3 DEF Settles
  <1> QED
    BY <1>2, <1>3 DEF Kinds, Stays, Resumes

\* For every scope: a child or a worker task settles once, whatever
\* cancellation, reply or wakeup comes late, and a child that was asked to stop
\* before it started never calls its body.
THEOREM ChildrenOneWay == Spec => OneWay
  <1>1. LifeInv /\ [Next]_vars
          => [/\ \A t \in Tasks : Ended(t) => status'[t] = status[t]
              /\ \A w \in Forks : fork[w].task \in Ends => fork'[w].task = fork[w].task]_vars
    BY LifeNext, ChildrenSettleOnce, ForksSettleOnce
  <1>2. LifeInv /\ [Next]_vars
          => [\A t \in Tasks : t \in requested /\ body[t] # "called" => body'[t] # "called"]_vars
    BY LifeNext, AskedNeverCalled
  <1>3. Spec => SettledForever
    BY <1>1, LifeAlways, PTL DEF Spec, SettledForever
  <1>4. Spec => NeverStartsAsked
    BY <1>2, LifeAlways, PTL DEF Spec, NeverStartsAsked
  <1> QED
    BY <1>3, <1>4 DEF OneWay
=============================================================================
