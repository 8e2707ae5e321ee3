------------------------------ MODULE WorkerPool ------------------------------
(***************************************************************************)
(* The browser's worker lanes: the pool on the page                        *)
(* (runtime/wasm/worker-pool.mjs) and the worker of each lane              *)
(* (runtime/luajit/worker-lane.mjs), joined by ports that deliver in       *)
(* order.  A lane boots, announces that it is ready, and runs one task at  *)
(* a time; a dedicated task has a lane of its own.  The pool is one        *)
(* record, its helpers are functions of it, and each event of the page is  *)
(* one step, the dispatch that ends it included.  A task may carry channel *)
(* endpoints (ChannelHost), followed here from owner to owner.             *)
(***************************************************************************)
EXTENDS Naturals, Sequences, FiniteSets, SequencesExt

CONSTANTS
    Tasks,          \* tasks that may be submitted
    Carriers,       \* the tasks that carry endpoints
    Dedicated,      \* the tasks that ask for a lane of their own
    Capacity,       \* lanes of the pool
    MaxDedicated,   \* dedicated lanes at once
    Opens,          \* bound: workers that may be opened, 1..Opens
    Unopenable,     \* workers whose construction throws
    MaxCrashes,     \* bound: lanes that fail or end
    IdleFails       \* may a lane fail while it runs no task

VARIABLES
    pool,           \* the page's tables, see Init
    worker,         \* "none", "booting", "idle", "running" or "failed", per worker
    current,        \* the task a worker runs
    interrupted,    \* has that task been asked to stop
    toPage,         \* what each worker has posted to the page
    crashes

vars == <<pool, worker, current, interrupted, toPage, crashes>>

Workers == 1..Opens
None == "none"
NoLane == [kind |-> "none", ready |-> FALSE, task |-> None]
Msg(kind, t, status) == [kind |-> kind, task |-> t, status |-> status]

Init ==
    /\ pool = [lane |-> [l \in Workers |-> NoLane], queue |-> <<>>,
               toLane |-> [l \in Workers |-> <<>>],
               status |-> [t \in Tasks |-> "new"], result |-> [t \in Tasks |-> None],
               asked |-> [t \in Tasks |-> FALSE],
               ends |-> [t \in Tasks |-> "none"], revoked |-> [t \in Tasks |-> FALSE],
               closed |-> FALSE]
    /\ worker = [l \in Workers |-> "none"]
    /\ current = [l \in Workers |-> None]
    /\ interrupted = [l \in Workers |-> FALSE]
    /\ toPage = [l \in Workers |-> <<>>]
    /\ crashes = 0

-----------------------------------------------------------------------------
Live(p, kind) == {l \in Workers : p.lane[l].kind = kind}
IdleLanes(p) == {l \in Live(p, "pool") : p.lane[l].task = None}
First(S) == CHOOSE l \in S : \A k \in S : l <= k
LaneOf(p, t) == {l \in Workers : p.lane[l].task = t}

\* Mutant: a settled task takes a second result.
IsSubmitted(p, t) == p.status[t] # "new"
IsUnsettled(p, t) == p.status[t] \in {"queued", "assigned"}
Settle(p, t, r) ==
    IF IsUnsettled(p, t) THEN [p EXCEPT !.status[t] = "settled", !.result[t] = r] ELSE p

\* revokeEndpoints: what the page holds is discarded, what was posted is revoked.
RevokeEndpoints(p, t) ==
    [p EXCEPT !.revoked[t] = p.ends[t] # "none", !.ends[t] = IF @ = "page" THEN "closed" ELSE @]

\* worker.terminate: the lane leaves its table.
Terminate(p, l) == [p EXCEPT !.lane[l] = [NoLane EXCEPT !.kind = "over"], !.toLane[l] = <<>>]

OpenLane(p, l, kind) == [p EXCEPT !.lane[l] = [NoLane EXCEPT !.kind = kind]]

PostAssigned(p, l, t) ==
    [p EXCEPT !.toLane[l] = Append(@, Msg("task", t, None)), !.ends[t] = IF @ = "page" THEN "lane" ELSE @]

AssignLane(p, l, t) ==
    LET q == [p EXCEPT !.lane[l].task = t, !.status[t] = "assigned"] IN
    IF q.lane[l].ready THEN PostAssigned(q, l, t) ELSE q

\* One turn of dispatch's loop for a task of the queue: an idle lane takes it,
\* else a lane is opened for it, else it stays.
DispatchOne(p, t) ==
    LET fresh == First(Live(p, "none")) IN
    IF IdleLanes(p) # {} THEN AssignLane(p, First(IdleLanes(p)), t)
    ELSE IF Cardinality(Live(p, "pool")) >= Capacity THEN [p EXCEPT !.queue = Append(@, t)]
    ELSE IF fresh \in Unopenable
         THEN Settle(RevokeEndpoints(OpenLane(p, fresh, "over"), t), t, "failed")
         ELSE AssignLane(OpenLane(p, fresh, "pool"), fresh, t)
Dispatch(p) ==
    IF p.closed THEN p ELSE FoldLeft(DispatchOne, [p EXCEPT !.queue = <<>>], p.queue)

\* Mutant: a failed lane's task is settled and nothing else is dispatched.
AfterFailureNothing(p) == p
AfterFailure(p) == Dispatch(p)
LaneFailure(p, l, channelsClosed) ==
    LET t == p.lane[l].task
        q == IF t # None /\ ~channelsClosed THEN RevokeEndpoints(p, t) ELSE p IN
    AfterFailure(IF t = None THEN Terminate(q, l) ELSE Settle(Terminate(q, l), t, "failed"))

\* A lane that is not ready gives its task back and stays, unless dedicated.
\* Mutant: a lane gives back a task it may be running.
MayTakeBackAny(p, l) == TRUE
MayTakeBack(p, l) == ~p.lane[l].ready
\* Mutant: the lane keeps the cancelled task.
TakeBackNothing(p, l) == p
TakeBack(p, l) == IF p.lane[l].kind = "dedicated" THEN Terminate(p, l) ELSE [p EXCEPT !.lane[l].task = None]

\* Mutant: cancelling a queued task leaves its endpoints.
DropTaskOnly(p, t) == p
DropTask(p, t) == RevokeEndpoints(p, t)
RequestCancel(p, t) ==
    LET q == [p EXCEPT !.asked[t] = TRUE]
        l == First(LaneOf(p, t)) IN
    IF ~IsUnsettled(p, t) THEN p
    ELSE IF LaneOf(p, t) = {}
         THEN Settle(DropTask([q EXCEPT !.queue = SelectSeq(@, LAMBDA u : u # t)], t), t, "cancelled")
    ELSE IF MayTakeBack(p, l) THEN Dispatch(Settle(DropTask(TakeBack(q, l), t), t, "cancelled"))
    ELSE [q EXCEPT !.toLane[l] = Append(@, Msg("cancel", t, None))]

\* Mutant: a task assigned while its lane was booting is never posted.
WhenReadyNothing(p, l, t) == p
WhenReady(p, l, t) == IF t = None THEN p ELSE PostAssigned(p, l, t)

\* laneMessage, for a lane that has not failed.
LaneMessage(p, l, m) ==
    LET t == p.lane[l].task
        ended == IF p.lane[l].kind = "dedicated" THEN Terminate(p, l) ELSE [p EXCEPT !.lane[l].task = None] IN
    IF p.lane[l].kind = "over" THEN p
    ELSE IF m.kind = "ready"
         THEN WhenReady([p EXCEPT !.lane[l].ready = TRUE], l, t)
    ELSE IF m.kind \in {"failed", "error"} THEN LaneFailure(p, l, m.kind = "failed")
    ELSE IF m.task # t THEN p
    ELSE Dispatch(Settle(ended, t, m.status))

-----------------------------------------------------------------------------
Unchanged == UNCHANGED <<worker, current, interrupted, toPage, crashes>>
\* A worker is constructed and told to boot in the step that opens its lane.
Booted == [l \in Workers |-> IF pool'.lane[l].kind \in {"pool", "dedicated"} /\ worker[l] = "none"
                             THEN "booting" ELSE worker[l]]

\* submit, of one task: a dedicated one is refused at the limit or when its
\* worker cannot be opened; then the queue is dispatched.
Refused(p, t) == RevokeEndpoints([p EXCEPT !.status[t] = "settled"], t)
Accept(p, t) ==
    LET q == [p EXCEPT !.status[t] = "queued", !.ends[t] = IF t \in Carriers THEN "page" ELSE "none"]
        fresh == First(Live(p, "none")) IN
    IF t \notin Dedicated THEN [q EXCEPT !.queue = Append(@, t)]
    ELSE IF Cardinality(Live(p, "dedicated")) >= MaxDedicated THEN [p EXCEPT !.status[t] = "settled"]
    ELSE IF fresh \in Unopenable THEN Refused(OpenLane(q, fresh, "over"), t)
    ELSE AssignLane(OpenLane(q, fresh, "dedicated"), fresh, t)
Submit(t) ==
    /\ ~pool.closed /\ pool.status[t] = "new"
    /\ pool' = Dispatch(Accept(pool, t))
    /\ worker' = Booted /\ UNCHANGED <<current, interrupted, toPage, crashes>>

\* cancel, or the timer of the task's deadline.
Cancel(t) ==
    /\ IsUnsettled(pool, t) /\ ~pool.asked[t] /\ pool' = RequestCancel(pool, t)
    /\ worker' = Booted /\ UNCHANGED <<current, interrupted, toPage, crashes>>

\* A settled task is awaited once and leaves the table.
Await(t) ==
    /\ pool.status[t] = "settled" /\ pool' = [pool EXCEPT !.status[t] = "awaited"] /\ Unchanged

PageHears(l) ==
    /\ toPage[l] # <<>> /\ toPage' = [toPage EXCEPT ![l] = Tail(@)]
    /\ pool' = LaneMessage(pool, l, Head(toPage[l]))
    /\ worker' = Booted /\ UNCHANGED <<current, interrupted, crashes>>

\* close: every task in the table is revoked and settled, every worker terminated.
ClosePool ==
    /\ ~pool.closed
    /\ LET T == {t \in Tasks : pool.status[t] \in {"queued", "assigned", "settled"}}
           q == FoldSet(LAMBDA t, p : Settle(RevokeEndpoints(p, t), t, "failed"), pool, T) IN
       pool' = [FoldSet(LAMBDA l, p : Terminate(p, l), q, Live(q, "pool") \union Live(q, "dedicated"))
                EXCEPT !.closed = TRUE]
    /\ Unchanged

-----------------------------------------------------------------------------
\* The worker of a lane.  Terminated, it does nothing more.
Up(l) == pool.lane[l].kind \in {"pool", "dedicated"}
Say(l, m) == toPage' = [toPage EXCEPT ![l] = Append(@, m)]

\* Its guest first asks for a task.
LaneReady(l) ==
    /\ Up(l) /\ worker[l] = "booting" /\ worker' = [worker EXCEPT ![l] = "idle"]
    /\ Say(l, Msg("ready", None, None)) /\ UNCHANGED <<pool, current, interrupted, crashes>>

\* A message arrives: a task, which the waiting guest takes, or a cancellation
\* of the task it runs.  Any other is of a task that has been answered.
IsCurrent(l, t) == current[l] = t
\* Mutant: the next task inherits the cancellation of the last.
Inherited(l) == interrupted[l]
Reset(l) == FALSE
LaneHears(l) ==
    /\ Up(l) /\ worker[l] \in {"idle", "running"} /\ pool.toLane[l] # <<>>
    /\ pool' = [pool EXCEPT !.toLane[l] = Tail(@)]
    /\ LET m == Head(pool.toLane[l]) IN
       IF m.kind = "task"
       THEN /\ worker' = [worker EXCEPT ![l] = "running"] /\ current' = [current EXCEPT ![l] = m.task]
            /\ interrupted' = [interrupted EXCEPT ![l] = Reset(l)]
       ELSE /\ interrupted' = [interrupted EXCEPT ![l] = @ \/ IsCurrent(l, m.task)]
            /\ UNCHANGED <<worker, current>>
    /\ UNCHANGED <<toPage, crashes>>

\* The guest replies, cancelled only if a checkpoint said so; its ends are settled.
SettleEnds(t) == [pool EXCEPT !.ends[t] = IF @ = "lane" THEN "closed" ELSE @]
LaneReplies(l, s) ==
    /\ Up(l) /\ worker[l] = "running" /\ (s = "cancelled" => interrupted[l])
    /\ pool' = SettleEnds(current[l])
    /\ Say(l, Msg("reply", current[l], s))
    /\ worker' = [worker EXCEPT ![l] = "idle"] /\ current' = [current EXCEPT ![l] = None]
    /\ UNCHANGED <<interrupted, crashes>>

\* failed: its host closes, with every end it holds.
LaneFails(l) ==
    /\ Up(l) /\ crashes < MaxCrashes /\ crashes' = crashes + 1
    /\ worker[l] = "running" \/ (IdleFails /\ worker[l] \in {"booting", "idle"})
    /\ pool' = IF current[l] = None THEN pool ELSE SettleEnds(current[l])
    /\ Say(l, Msg("failed", None, None))
    /\ worker' = [worker EXCEPT ![l] = "failed"] /\ current' = [current EXCEPT ![l] = None]
    /\ UNCHANGED interrupted

\* The worker ends, or cannot be loaded: the page sees an error event.
LaneEnds(l) ==
    /\ Up(l) /\ crashes < MaxCrashes /\ crashes' = crashes + 1 /\ worker[l] \notin {"none", "failed"}
    /\ Say(l, Msg("error", None, None))
    /\ worker' = [worker EXCEPT ![l] = "failed"] /\ current' = [current EXCEPT ![l] = None]
    /\ UNCHANGED <<pool, interrupted>>

Next ==
    \/ \E t \in Tasks : Submit(t) \/ Cancel(t) \/ Await(t)
    \/ \E l \in Workers :
          \/ PageHears(l) \/ LaneReady(l) \/ LaneHears(l) \/ LaneFails(l) \/ LaneEnds(l)
          \/ \E s \in {"done", "cancelled"} : LaneReplies(l, s)
    \/ ClosePool

\* Ports deliver, a booting worker gets ready or ends, and tasks return.
Fairness == \A l \in Workers :
    /\ WF_vars(PageHears(l)) /\ WF_vars(LaneReady(l)) /\ WF_vars(LaneHears(l))
    /\ WF_vars(LaneReplies(l, "done"))

Spec == Init /\ [][Next]_vars
FairSpec == Spec /\ Fairness

-----------------------------------------------------------------------------
TypeOK ==
    /\ pool.lane \in [Workers -> [kind : {"none", "pool", "dedicated", "over"},
                                  ready : BOOLEAN, task : Tasks \union {None}]]
    /\ pool.status \in [Tasks -> {"new", "queued", "assigned", "settled", "awaited"}]
    /\ \A t \in Tasks : pool.status[t] = "queued" <=> t \in ToSet(pool.queue) /\ ~pool.closed
    /\ \A t \in Tasks : pool.status[t] = "assigned" <=> Cardinality(LaneOf(pool, t)) = 1
    /\ Cardinality(Live(pool, "pool")) <= Capacity /\ Cardinality(Live(pool, "dedicated")) <= MaxDedicated
    /\ worker \in [Workers -> {"none", "booting", "idle", "running", "failed"}]

\* What a worker runs, or is about to, is the unsettled task the page assigned
\* it: a lane looks idle to the page only when it is, and a task cancelled
\* before it was posted is never run.
LaneAgrees ==
    \A l \in Workers : Up(l) =>
        \A t \in {current[l]} \union {m.task : m \in {x \in ToSet(pool.toLane[l]) : x.kind = "task"}} :
            t # None => pool.lane[l].task = t /\ IsUnsettled(pool, t)

\* No task waits while a lane stands idle or another could be opened.
NoIdleWait ==
    pool.queue # <<>> /\ ~pool.closed =>
        IdleLanes(pool) = {} /\ Cardinality(Live(pool, "pool")) = Capacity

\* A running task is interrupted only if its own cancellation was asked for,
\* whichever late messages the lane still receives.
CancelExact == \A l \in Workers : current[l] # None /\ interrupted[l] => pool.asked[current[l]]

\* A task settles once: no late reply, failure or closing changes its result.
SettledOnce ==
    [][\A t \in Tasks : pool.result[t] # None => pool'.result[t] = pool.result[t]]_vars

\* When a task is settled its endpoints are closed or their supervisor has
\* been told, so the other end of each channel hears of it.
EndpointsAccounted ==
    \A t \in Tasks : pool.status[t] \in {"settled", "awaited"} =>
        pool.ends[t] \in {"none", "closed"} \/ pool.revoked[t]

\* Every accepted task settles.
AllSettle == \A t \in Tasks : pool.status[t] # "new" ~> pool.status[t] \in {"settled", "awaited"}
=============================================================================
