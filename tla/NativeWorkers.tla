---------------------------- MODULE NativeWorkers ----------------------------
(***************************************************************************)
(* The native workers of one scope.  The parent                            *)
(* (src/nupp/runtime/provider/workers.nupp) submits tasks to lanes, routes *)
(* their replies, waits, cancels and closes; a lane is a thread            *)
(* (native/crates/host/src/worker_adapter.rs, workers.rs) that runs        *)
(* runscheduler over an inbox and an outbox.  A dedicated task has a lane  *)
(* of its own, which is joined and retired when it has ended.              *)
(*                                                                         *)
(* The parent is one thread: `busy` is what it is in the middle of, and no *)
(* other step of the parent happens until that is over.  Without a         *)
(* suspension handler it also blocks in a wait; with one, every coroutine  *)
(* that waits is parked until its resume is called.  Coroutine t awaits    *)
(* task t; "close" leaves the scope, once no coroutine waits (the task     *)
(* scope settles its children first).  Lanes move between any two steps.   *)
(* The pool is up from the start; starting a lane succeeds or raises       *)
(* before anything is registered, which changes nothing.                   *)
(***************************************************************************)
EXTENDS Naturals, Integers, Sequences, FiniteSets, SequencesExt

CONSTANTS
    Tasks,          \* tasks that may be submitted
    Dedicated,      \* the ones that ask for a lane of their own
    Pooled,         \* lanes of the pool
    Moving,         \* tasks whose result carries a moved allocation
    Room,           \* messages an inbox or an outbox holds
    MaxDedicated,   \* dedicated lanes at once
    Deadline,       \* may the deadline of a task pass
    Handled,        \* is a suspension handler installed
    Abandons,       \* may a parked coroutine be cancelled
    MaxCrashes      \* bound: lanes that end early

VARIABLES
    up,             \* "no", "up" or "retired", per lane
    on,             \* the lane of a task
    pending,        \* the tasks a lane has not answered
    inflight,       \* the counter the scheduler keeps of them
    inbox, outbox,  \* what is queued in either direction
    closed,         \* the channels that are closed, <<lane, "in" or "out">>
    status,         \* the state of a task that parent and lane share
    thread,         \* where the thread of a lane is, with its task and answer
    state,          \* the state of a task the parent knows
    observed,       \* tasks somebody awaited
    list,           \* the scope's list
    at,             \* where a coroutine is
    waiters,        \* coroutines whose resume has not been called
    busy,           \* what the parent is in the middle of
    todo,           \* the tasks closing has still to settle
    frees,          \* does closing free the result of the one it settles
    joinee,         \* the dedicated lane closing waits for
    storage,        \* who has the moved allocation of a result
    ran,            \* tasks whose function was called
    crashed         \* lanes that ended early

books == <<up, on, pending, inflight, status, state, list>>
laneVars == <<inbox, thread, ran, crashed>>
closing == <<todo, frees, joinee>>
vars == <<books, laneVars, closing, outbox, closed, observed, at, waiters, busy, storage>>

None == "none"
Lanes == Pooled \cup Dedicated
Fibers == Tasks \cup {"close"}
Waiting == {"reply", "end"}
Settled == {"done", "failed", "cancelled"}
Thread(where, t, with) == [at |-> where, task |-> t, answer |-> with]
Doing(what, who, l, lanes) == [does |-> what, who |-> who, lane |-> l, left |-> lanes]
Idle == Doing("nothing", None, None, {})

\* The rest of a poll, and what follows it: the submission it is for, if any.
Polling(t, lanes) ==
    IF lanes # {} THEN Doing("poll", t, None, lanes) ELSE IF t # None THEN Doing("admit", t, None, {}) ELSE Idle

Init ==
    /\ up = [l \in Lanes |-> IF l \in Pooled THEN "up" ELSE "no"] /\ on = [t \in Tasks |-> None]
    /\ pending = [l \in Lanes |-> {}] /\ inflight = [l \in Lanes |-> 0]
    /\ inbox = [l \in Lanes |-> <<>>] /\ outbox = [l \in Lanes |-> <<>>] /\ closed = {}
    /\ status = [t \in Tasks |-> None] /\ thread = [l \in Lanes |-> Thread("pop", None, None)]
    /\ state = [t \in Tasks |-> "new"] /\ observed = {} /\ list = <<>>
    /\ at = [f \in Fibers |-> "no"] /\ waiters = {} /\ busy = Idle
    /\ todo = <<>> /\ frees = FALSE /\ joinee = None
    /\ storage = [t \in Tasks |-> None] /\ ran = {} /\ crashed = {}

-----------------------------------------------------------------------------
(* Channels, waits and the scope's list.                                   *)
InOpen(l) == <<l, "in">> \notin closed
Drained(l) == up[l] # "up" \/ outbox[l] = <<>>
Ended(l) == up[l] = "retired" \/ (<<l, "out">> \in closed /\ outbox[l] = <<>>)
Ready(t) == t \notin pending[on[t]]
Started == {l \in Lanes : up[l] = "up"}
Owned == {l \in Dedicated : up[l] = "up"}

\* The parent starts something new only when it is not blocked.
Free == busy = Idle /\ at["close"] # "settle" /\ (Handled \/ \A f \in Fibers : at[f] \notin Waiting)

\* The task a coroutine waits for, and the lane.
Target(f) == IF f # "close" THEN f ELSE IF todo = <<>> THEN None ELSE Head(todo)
LaneOf(f) == IF Target(f) = None THEN joinee ELSE on[Target(f)]

\* delist: a sequence without one of its members.
Without(s, x) ==
    IF \E i \in 1..Len(s) : s[i] = x THEN RemoveAt(s, CHOOSE i \in 1..Len(s) : s[i] = x) ELSE s

\* A settled task leaves the list unless closing must still free its result;
\* a failure is the observer's.
Released(t) == IF t \notin observed /\ storage[t] = "result" THEN list ELSE Without(list, t)

\* Mutant: a reply wakes nobody.
WokenNone(t) == {}
\* Who waits for the reply to a task.
WokenBy(t) == {f \in waiters : at[f] = "reply" /\ Target(f) = t}

\* Mutant: a reply nobody needs any more is not counted.
AnsweredNeeded(l, t) == IF state[t] = "cancelled" THEN inflight[l] ELSE inflight[l] - 1
Answered(l, t) == inflight[l] - 1

\* One reply is taken: its task leaves the lane's books, settles unless it was
\* cancelled before, and wakes who waits for it.
Route(l) ==
    LET t == Head(outbox[l]).task
        answer == Head(outbox[l]).answer
    IN  /\ ~Drained(l)
        /\ outbox' = [outbox EXCEPT ![l] = Tail(@)]
        /\ pending' = [pending EXCEPT ![l] = @ \ {t}] /\ inflight' = [inflight EXCEPT ![l] = Answered(l, t)]
        /\ status' = [status EXCEPT ![t] = None]
        /\ state' = [state EXCEPT ![t] = IF @ = "cancelled" THEN @ ELSE answer]
        /\ list' = IF state[t] = "cancelled" THEN list ELSE Released(t)
        /\ waiters' = waiters \ WokenBy(t)
        /\ UNCHANGED <<laneVars, closing, up, on, closed, observed, at, storage>>

-----------------------------------------------------------------------------
(* Submitting.                                                             *)
\* The least busy lane of the pool that has not ended, or a new one.
Admits(t, l) ==
    \/ t \in Dedicated /\ l = t /\ Cardinality(Owned) < MaxDedicated
    \/ /\ t \notin Dedicated /\ l \in Pooled /\ InOpen(l)
       /\ \A k \in Pooled : InOpen(k) => inflight[l] <= inflight[k]

\* A dedicated submission first polls the scheduler, which may retire a lane.
Submit(t) ==
    /\ Free /\ state[t] = "new" /\ at["close"] = "no"
    /\ busy' = Polling(t, IF t \in Dedicated THEN Started ELSE {})
    /\ UNCHANGED <<books, laneVars, closing, outbox, closed, observed, at, waiters, storage>>
\* The task is registered with a lane, then pushed; the lane may end between.
Admit(t) ==
    /\ busy = Doing("admit", t, None, {})
    /\ \E l \in Lanes :
          /\ Admits(t, l)
          /\ up' = [up EXCEPT ![l] = "up"] /\ on' = [on EXCEPT ![t] = l]
          /\ pending' = [pending EXCEPT ![l] = @ \cup {t}] /\ inflight' = [inflight EXCEPT ![l] = @ + 1]
          /\ busy' = Doing("push", t, l, {})
    /\ status' = [status EXCEPT ![t] = "queued"] /\ state' = [state EXCEPT ![t] = "queued"]
    /\ UNCHANGED <<laneVars, closing, list, outbox, closed, observed, at, waiters, storage>>
\* The limit of dedicated lanes is reached, or every lane of the pool has ended.
AdmitRefused(t) ==
    /\ busy = Doing("admit", t, None, {}) /\ \A l \in Lanes : ~Admits(t, l)
    /\ busy' = Idle
    /\ UNCHANGED <<books, laneVars, closing, outbox, closed, observed, at, waiters, storage>>

\* The inbox of a dedicated lane is closed behind its one task.
ClosedBehind(l) == IF l \in Dedicated THEN closed \cup {<<l, "in">>} ELSE closed
Push ==
    LET l == busy.lane
    IN  /\ busy.does = "push" /\ InOpen(l) /\ Len(inbox[l]) < Room
        /\ inbox' = [inbox EXCEPT ![l] = Append(@, busy.who)] /\ list' = Append(list, busy.who)
        /\ closed' = ClosedBehind(l) /\ busy' = Idle
        /\ UNCHANGED <<closing, up, on, pending, inflight, outbox, status, thread, state, observed, at, waiters, storage,
                       ran, crashed>>
\* What was registered is taken back, and a dedicated lane is joined.
PushRefused ==
    LET t == busy.who
        l == busy.lane
    IN  /\ busy.does = "push" /\ (~InOpen(l) \/ Len(inbox[l]) >= Room)
        /\ pending' = [pending EXCEPT ![l] = @ \ {t}] /\ inflight' = [inflight EXCEPT ![l] = Answered(l, t)]
        /\ status' = [status EXCEPT ![t] = None] /\ state' = [state EXCEPT ![t] = "refused"]
        /\ closed' = ClosedBehind(l)
        /\ busy' = IF l \in Dedicated THEN Doing("join", None, l, {}) ELSE Idle
        /\ UNCHANGED <<laneVars, closing, up, on, list, outbox, observed, at, waiters, storage>>

-----------------------------------------------------------------------------
(* Waiting.  isdone first routes what its lane has sent.                   *)
Await(t) ==
    /\ Free /\ at[t] = "no" /\ at["close"] = "no" /\ state[t] \in Settled \cup {"queued"}
    /\ observed' = observed \cup {t}
    /\ at' = [at EXCEPT ![t] = IF state[t] = "queued" THEN "isdone" ELSE "end"]
    /\ busy' = IF state[t] = "queued" THEN Doing("isdone", t, on[t], {}) ELSE Idle
    /\ UNCHANGED <<books, laneVars, closing, outbox, closed, waiters, storage>>
IsdoneRoutes == busy.does \in {"isdone", "cancel"} /\ Route(busy.lane) /\ UNCHANGED busy
IsdoneEnds ==
    /\ busy.does = "isdone" /\ Drained(busy.lane)
    /\ at' = [at EXCEPT ![busy.who] = IF state[Target(busy.who)] = "queued" THEN "reply" ELSE "end"]
    /\ busy' = Idle
    /\ UNCHANGED <<books, laneVars, closing, outbox, closed, observed, waiters, storage>>

\* A coroutine that is not parked looks at what it waits for.
Looks(f, for) == busy = Idle /\ at[f] = for /\ f \notin waiters
Unended(f) == LaneOf(f) \in Owned
ReplyCame(f) ==
    /\ Looks(f, "reply") /\ Ready(Target(f)) /\ at' = [at EXCEPT ![f] = "end"]
    /\ UNCHANGED <<books, laneVars, closing, outbox, closed, observed, waiters, busy, storage>>
LaneGone(f) ==
    /\ Looks(f, "reply") /\ ~Ready(Target(f)) /\ Ended(LaneOf(f)) /\ at' = [at EXCEPT ![f] = "raised"]
    /\ UNCHANGED <<books, laneVars, closing, outbox, closed, observed, waiters, busy, storage>>
\* Under a handler it parks; otherwise it blocks on the lane's outbox, and
\* joins a dedicated lane itself.
Parks(f) ==
    /\ Handled
    /\ \/ Looks(f, "reply") /\ ~Ready(Target(f)) /\ ~Ended(LaneOf(f))
       \/ Looks(f, "end") /\ Unended(f)
    /\ waiters' = waiters \cup {f}
    /\ UNCHANGED <<books, laneVars, closing, outbox, closed, observed, at, busy, storage>>
Blocks(f) ==
    /\ ~Handled
    /\ (Looks(f, "reply") /\ ~Ready(Target(f))) \/ (Looks(f, "end") /\ Unended(f))
    /\ Route(LaneOf(f)) /\ UNCHANGED busy
Joins(f) ==
    /\ ~Handled /\ Looks(f, "end") /\ Unended(f) /\ Ended(LaneOf(f))
    /\ closed' = ClosedBehind(LaneOf(f)) /\ busy' = Doing("join", None, LaneOf(f), {})
    /\ UNCHANGED <<books, laneVars, closing, outbox, observed, at, waiters, storage>>

Taken(t) == IF storage[t] = "result" THEN [storage EXCEPT ![t] = "taken"] ELSE storage
Returns(t) ==
    /\ t \in Tasks /\ Looks(t, "end") /\ ~Unended(t)
    /\ at' = [at EXCEPT ![t] = "returned"] /\ list' = Without(list, t) /\ storage' = Taken(t)
    /\ UNCHANGED <<laneVars, closing, up, on, pending, inflight, status, state, outbox, closed, observed, waiters, busy>>

\* A parked coroutine is cancelled and unsubscribes.
Abandon(t) ==
    /\ Abandons /\ busy = Idle /\ t \in waiters \cap Tasks
    /\ waiters' = waiters \ {t} /\ at' = [at EXCEPT ![t] = "raised"]
    /\ UNCHANGED <<books, laneVars, closing, outbox, closed, observed, busy, storage>>

-----------------------------------------------------------------------------
(* Cancelling a task: taken back before it starts, asked to stop later.    *)
Cancel(t) ==
    /\ Free /\ state[t] = "queued" /\ at["close"] = "no"
    /\ busy' = Doing("cancel", t, on[t], {})
    /\ UNCHANGED <<books, laneVars, closing, outbox, closed, observed, at, waiters, storage>>
\* Mutant: a running task is settled like a queued one.
TakenBackRunning(t) == state[t] = "queued" /\ status[t] \in {"queued", "running"}
TakenBack(t) == state[t] = "queued" /\ status[t] = "queued"
CancelEnds ==
    LET t == busy.who
    IN  /\ busy.does = "cancel" /\ Drained(busy.lane)
        /\ status' = [status EXCEPT ![t] = IF TakenBack(t) THEN "cancelled"
                                           ELSE IF state[t] = "queued" /\ @ = "running" THEN "requested" ELSE @]
        /\ state' = IF TakenBack(t) THEN [state EXCEPT ![t] = "cancelled"] ELSE state
        /\ list' = IF TakenBack(t) THEN Released(t) ELSE list
        /\ busy' = Idle
        /\ UNCHANGED <<laneVars, closing, up, on, pending, inflight, outbox, closed, observed, at, waiters, storage>>

-----------------------------------------------------------------------------
(* A poll of the scheduler's source, by a host or before a dedicated       *)
(* submission: each lane's replies, then who waits for its end, then its   *)
(* retirement.  The lane may end between any two of these.                 *)
Active == \E l \in Started : inflight[l] > 0 \/ l \in Dedicated
PollStarts ==
    /\ Free /\ Handled /\ Active
    /\ busy' = Polling(None, Started)
    /\ UNCHANGED <<books, laneVars, closing, outbox, closed, observed, at, waiters, storage>>
PollRoutes == busy.does = "poll" /\ (\E l \in busy.left : Route(l)) /\ UNCHANGED busy
PollWakes ==
    /\ busy.does = "poll"
    /\ \E l \in busy.left :
          /\ Drained(l)
          /\ waiters' = IF Ended(l) THEN {f \in waiters : LaneOf(f) # l} ELSE waiters
          /\ busy' = Doing("retire", busy.who, l, busy.left \ {l})
    /\ UNCHANGED <<books, laneVars, closing, outbox, closed, observed, at, storage>>
\* Mutant: a dedicated lane is retired with its reply on the way.
RetirableSoon(l) == l \in Dedicated /\ ~InOpen(l)
Retirable(l) == l \in Dedicated /\ inflight[l] = 0 /\ Ended(l)
PollRetires ==
    /\ busy.does = "retire"
    /\ closed' = IF Retirable(busy.lane) THEN ClosedBehind(busy.lane) ELSE closed
    /\ busy' = IF Retirable(busy.lane) THEN Doing("join", busy.who, busy.lane, busy.left)
               ELSE Polling(busy.who, busy.left)
    /\ UNCHANGED <<books, laneVars, closing, outbox, observed, at, waiters, storage>>

\* A join waits for the thread to report its end.  It would drain the outbox
\* meanwhile, but every lane that is joined has closed it or sent nothing.
JoinEnds ==
    /\ busy.does = "join" /\ thread[busy.lane].at = "reported"
    /\ up' = [up EXCEPT ![busy.lane] = "retired"] /\ thread' = [thread EXCEPT ![busy.lane].at = "ended"]
    /\ busy' = Polling(busy.who, busy.left)
    /\ UNCHANGED <<closing, on, pending, inflight, inbox, outbox, closed, status, state, observed, list, at, waiters,
                   storage, ran, crashed>>

-----------------------------------------------------------------------------
(* Closing the scope: every listed task is settled, then every dedicated   *)
(* lane is waited for.                                                     *)
Close ==
    /\ Free /\ at["close"] = "no" /\ \A t \in Tasks : at[t] \notin Waiting
    /\ at' = [at EXCEPT !["close"] = "settle"] /\ todo' = list
    /\ UNCHANGED <<books, laneVars, frees, joinee, outbox, closed, observed, waiters, busy, storage>>
CloseSettles ==
    LET t == Head(todo)
    IN  /\ busy = Idle /\ at["close"] = "settle" /\ todo # <<>>
        /\ frees' = (t \notin observed) /\ observed' = observed \cup {t}
        /\ at' = [at EXCEPT !["close"] = IF state[t] = "queued" THEN "isdone" ELSE "end"]
        /\ busy' = IF state[t] = "queued" THEN Doing("isdone", "close", on[t], {}) ELSE Idle
        /\ UNCHANGED <<books, laneVars, todo, joinee, outbox, closed, waiters, storage>>
CloseFrees ==
    LET t == Head(todo)
    IN  /\ Looks("close", "end") /\ todo # <<>> /\ ~Unended("close")
        /\ at' = [at EXCEPT !["close"] = "settle"] /\ todo' = Tail(todo) /\ list' = Without(list, t)
        /\ storage' = IF frees /\ storage[t] = "result" THEN [storage EXCEPT ![t] = "freed"] ELSE storage
        /\ UNCHANGED <<laneVars, frees, joinee, up, on, pending, inflight, status, state, outbox, closed, observed, waiters,
                       busy>>
\* Mutant: closing does not wait for the dedicated lanes of cancelled tasks.
LeftNone == {}
Left == Owned
CloseJoins ==
    /\ busy = Idle /\ "close" \notin waiters /\ todo = <<>>
    /\ at["close"] \in {"settle", "end"} /\ ~(at["close"] = "end" /\ Unended("close"))
    /\ joinee' = IF Left = {} THEN None ELSE CHOOSE l \in Left : TRUE
    /\ at' = [at EXCEPT !["close"] = IF Left = {} THEN "returned" ELSE "end"]
    /\ UNCHANGED <<books, laneVars, todo, frees, outbox, closed, observed, waiters, busy, storage>>

-----------------------------------------------------------------------------
(* A lane.                                                                 *)
\* Mutant: a task that was taken back is started all the same.
StartsAny(t) == status[t] \in {"queued", "cancelled"}
Starts(t) == status[t] = "queued"
LaneStarts(l) ==
    LET t == Head(inbox[l])
    IN  /\ thread[l].at = "pop" /\ inbox[l] # <<>> /\ inbox' = [inbox EXCEPT ![l] = Tail(@)]
        /\ \/ /\ Starts(t) /\ status' = [status EXCEPT ![t] = "running"] /\ ran' = ran \cup {t}
              /\ thread' = [thread EXCEPT ![l] = Thread("run", t, None)]
           \/ /\ ~Starts(t) \/ Deadline
              /\ status' = [status EXCEPT ![t] = "done"] /\ thread' = [thread EXCEPT ![l] = Thread("answer", t, "cancelled")]
              /\ UNCHANGED ran
        /\ UNCHANGED <<closing, up, on, pending, inflight, state, list, outbox, closed, observed, at, waiters, busy, storage,
                       crashed>>
\* A request or the deadline turns a result into a cancellation; a function may
\* raise either.
LaneFinishes(l) ==
    LET t == thread[l].task
    IN  /\ thread[l].at = "run" /\ status' = [status EXCEPT ![t] = "done"]
        /\ \E answer \in {"failed", "cancelled"} \cup (IF status[t] = "requested" THEN {} ELSE {"done"}) :
              /\ thread' = [thread EXCEPT ![l] = Thread("answer", t, answer)]
              /\ storage' = IF answer = "done" /\ t \in Moving THEN [storage EXCEPT ![t] = "result"] ELSE storage
        /\ UNCHANGED <<closing, up, on, pending, inflight, state, list, inbox, outbox, closed, observed, at, waiters, busy,
                       ran, crashed>>
\* The outbox waits for room.
LaneReplies(l) ==
    /\ thread[l].at = "answer" /\ Len(outbox[l]) < Room
    /\ outbox' = [outbox EXCEPT ![l] = Append(@, [task |-> thread[l].task, answer |-> thread[l].answer])]
    /\ thread' = [thread EXCEPT ![l] = Thread("pop", None, None)]
    /\ UNCHANGED <<books, closing, inbox, closed, observed, at, waiters, busy, storage, ran, crashed>>
LaneReturns(l) ==
    /\ thread[l].at = "pop" /\ inbox[l] = <<>> /\ ~InOpen(l)
    /\ thread' = [thread EXCEPT ![l] = Thread("stopped", None, None)]
    /\ UNCHANGED <<books, closing, inbox, outbox, closed, observed, at, waiters, busy, storage, ran, crashed>>
\* The scheduler's loop raises: on a message it cannot read, or cleaning up
\* after a task, and the task is never answered.
LaneCrashes(l) ==
    /\ Cardinality(crashed) < MaxCrashes /\ crashed' = crashed \cup {l}
    /\ \/ thread[l].at = "run" /\ UNCHANGED inbox
       \/ thread[l].at = "pop" /\ inbox[l] # <<>> /\ inbox' = [inbox EXCEPT ![l] = Tail(@)]
    /\ thread' = [thread EXCEPT ![l] = Thread("stopped", None, None)]
    /\ UNCHANGED <<books, closing, outbox, closed, observed, at, waiters, busy, storage, ran>>
\* What the thread does when its guest has stopped: the inbox is closed and
\* emptied, then the outbox closed and the end reported.
LaneDiscards(l) ==
    /\ thread[l].at = "stopped" /\ thread' = [thread EXCEPT ![l].at = "discarded"]
    /\ inbox' = [inbox EXCEPT ![l] = <<>>] /\ closed' = closed \cup {<<l, "in">>}
    /\ UNCHANGED <<books, closing, outbox, observed, at, waiters, busy, storage, ran, crashed>>
\* Mutant: the outbox stays open when the guest has stopped.
ClosesNothing(l) == closed
Closes(l) == closed \cup {<<l, "out">>}
LaneReports(l) ==
    /\ thread[l].at = "discarded" /\ thread' = [thread EXCEPT ![l].at = "reported"] /\ closed' = Closes(l)
    /\ UNCHANGED <<books, closing, inbox, outbox, observed, at, waiters, busy, storage, ran, crashed>>

-----------------------------------------------------------------------------
Waits(f) == ReplyCame(f) \/ LaneGone(f) \/ Parks(f) \/ Blocks(f) \/ Joins(f) \/ Returns(f)
Parent ==
    \/ \E t \in Tasks : Admit(t) \/ AdmitRefused(t)
    \/ Push \/ PushRefused \/ IsdoneRoutes \/ IsdoneEnds \/ CancelEnds
    \/ PollRoutes \/ PollWakes \/ PollRetires \/ JoinEnds
    \/ CloseSettles \/ CloseFrees \/ CloseJoins
Lane(l) == LaneStarts(l) \/ LaneFinishes(l) \/ LaneReplies(l) \/ LaneReturns(l) \/ LaneDiscards(l) \/ LaneReports(l)
Next ==
    \/ \E t \in Tasks : Submit(t) \/ Await(t) \/ Cancel(t) \/ Abandon(t)
    \/ Close \/ PollStarts \/ Parent
    \/ \E f \in Fibers : Waits(f)
    \/ \E l \in Lanes : Lane(l) \/ LaneCrashes(l)

Spec == Init /\ [][Next]_vars

\* Without a handler the parent is one thread that goes on with what it began
\* and with the wait it is in, and lanes run.  A function that never returns is
\* not modelled.  Under a handler nothing is assumed of the host.
Runs == Parent \/ \E f \in Fibers : Waits(f)
Fairness == WF_vars(Runs) /\ \A l \in Lanes : WF_vars(Lane(l))
FairSpec == Spec /\ Fairness

-----------------------------------------------------------------------------
\* A lane's counter is the number of tasks it has not answered, and each of
\* them is in exactly one place between submission and reply, unless the lane
\* ended early: no reply is lost to a join, routed twice or unknown, and none
\* is routed past a coroutine that is parked for it.
InPlaces(l) == inbox[l] \o (IF thread[l].task = None THEN <<>> ELSE <<thread[l].task>>)
               \o [i \in DOMAIN outbox[l] |-> outbox[l][i].task]
               \o (IF busy.does = "push" /\ busy.lane = l THEN <<busy.who>> ELSE <<>>)
RepliesAccounted ==
    \A l \in Lanes :
        /\ inflight[l] = Cardinality(pending[l])
        /\ ToSet(InPlaces(l)) \subseteq pending[l] /\ IsInjective(InPlaces(l))
        /\ l \notin crashed => ToSet(InPlaces(l)) = pending[l] /\ (up[l] = "retired" => pending[l] = {})
        /\ \A f \in waiters : at[f] = "reply" => ~Ready(Target(f))

\* A task taken back before it started is settled at once, and its function is
\* never called.
TakenBackNeverRuns == \A t \in Tasks : state[t] = "cancelled" /\ ~Ready(t) => t \notin ran

\* The moved allocation of a result is on its way, with somebody who awaits the
\* task, or listed for closing to free: never without an owner.  It relies on
\* awaits not being abandoned.
MovedOwned ==
    \A t \in Tasks : storage[t] = "result" =>
        ~Ready(t) \/ t \in ToSet(list) \/ at[t] \in {"isdone", "reply", "end"} \/ t \in ToSet(todo)

\* A scope that has closed without raising leaves no task unsettled, no
\* dedicated lane and no moved allocation.
CloseLeavesNothing ==
    at["close"] = "returned" =>
        /\ Owned = {} /\ list = <<>>
        /\ \A t \in Tasks : state[t] # "queued" /\ storage[t] # "result"

\* Whatever cancels, fails, ends early or closes between: every reply is routed
\* once, past nobody who waits for it; a task taken back never runs; what a
\* result moved has an owner; and a scope that closed leaves nothing behind.
WorkersSound == RepliesAccounted /\ TakenBackNeverRuns /\ MovedOwned /\ CloseLeavesNothing

\* Nobody is parked on a lane that has been retired, which is never polled
\* again: an ended lane wakes its joiners.
JoinersWoken == \A f \in waiters : up[LaneOf(f)] # "retired"

\* Every await and every close ends, returning or raising.
InCall(f) == at[f] \in {"isdone", "reply", "end", "settle"}
WaitsEnd == \A f \in Fibers : InCall(f) ~> ~InCall(f)
=============================================================================
