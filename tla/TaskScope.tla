----------------------------- MODULE TaskScope -----------------------------
(***************************************************************************)
(* One task scope of src/nupp/tasks.nupp: the block that opened it, the    *)
(* coroutine children it started, its worker tasks and the host that polls *)
(* the readiness sources.                                                  *)
(*                                                                         *)
(* Everything but the worker lanes runs on one Lua state, so control has   *)
(* one place: `cpu` is the block, a child it resumed, or the host the      *)
(* block parked on.  A step is what runs between two points where control  *)
(* or the loop that is running may change.  The callbacks a settlement or  *)
(* a cancellation has to make (resume a waiter, request a child, cancel a  *)
(* worker task) are made one by one before anything else runs: they are    *)
(* `owed`.                                                                 *)
(*                                                                         *)
(* The run queue is the FIFO of runnable children; RunQueue.tla shows that *)
(* the array with stale entries in the code implements it.                 *)
(***************************************************************************)
EXTENDS Integers, Sequences, SequencesExt, FiniteSets

CONSTANTS
    Tasks,          \* the children, numbered from 1 in the order they start
    Forks,          \* the worker tasks, numbered likewise
    Limit,          \* owner.limit; an unlimited scope has one it cannot reach
    HasDeadline,    \* owner.deadline ~= nil
    Hosted,         \* a host's handler is installed under the block's frame
    Activations,    \* ACTIVATIONS_PER_TURN
    BlockOps,       \* what the block does with the scope
    TaskOps,        \* what the children's bodies do
    BlockSteps,     \* how many such operations the block performs,
    TaskSteps,      \* and how many each child
    Catches,        \* bodies catch what is raised in them and go on
    LenderCatches,  \* also where it is raised out of lendSlot
    Deliberate      \* kinds of nested scopes: deliberately cancelled or not

ASSUME TasksAssumption == Tasks \subseteq Nat \ {0} /\ Forks \subseteq Nat \ {0}
ASSUME LimitAssumption == Limit \in Nat \ {0} /\ Activations \in Nat \ {0}
ASSUME StepsAssumption == BlockSteps \in Nat /\ TaskSteps \in Nat
ASSUME OptionsAssumption ==
    /\ {HasDeadline, Hosted, Catches, LenderCatches} \subseteq BOOLEAN
    /\ Deliberate \subseteq BOOLEAN

VARIABLES
    queue,          \* the runnable children, in the order they are resumed
    list,           \* first..last: the live children, in the order they started
    status,         \* child.status; "new" before spawn, "refused" by it
    requested,      \* children with child.requested
    told,           \* history: children a cancellation was raised in
    body,           \* what became of the transferred body
    by,             \* history: who started the child and holds its handle
    lending, lent,  \* child.lending, owner.lent
    slotWaiters,    \* owner.slotWaiters
    waiters,        \* child.waiters
    failed, cancelled, deliberate, settling, closed,    \* owner's flags
    forks,          \* owner.forks
    fork,           \* fork[w]: the worker task, its lane and who waits for it
    outstanding,    \* the worker scope's list of unsettled tasks
    cpu,            \* who runs: the block, a child or the host
    act,            \* act[t]: where child t is
    block,          \* where the block is
    left,           \* operations left
    owed,           \* callbacks to make before anything else runs
    wakers,         \* owner.wakers: the pump's wait, the armed outward park
    woken,          \* the outward park was woken and has not been looked at
    timer,          \* the wakeat registration of the park
    turn,           \* activations left in the host turn
    expired         \* now() >= owner.deadline

schedule == <<queue, list, status, requested, told, body, by>>
slots == <<lending, lent, slotWaiters, waiters>>
flags == <<failed, cancelled, deliberate, settling, closed>>
lanes == <<forks, fork, outstanding>>
host == <<wakers, woken, timer, turn, expired>>
vars == <<schedule, slots, flags, lanes, host, cpu, act, block, left, owed>>

Block == 0
Host == -1
NoOne == -1

Waits == {"ext", "await", "fork", "lend", "drain"}
Places == Waits \union {"new", "body", "awaited", "forked", "raisedCancel", "raisedError", "over"}
Ends == {"done", "failed", "cancelled"}
Replies == Ends

Call(do, who) == [do |-> do, who |-> who]
CallAll(do, s) == [i \in 1..Len(s) |-> Call(do, s[i])]

\* A sequence without one of its members.
Without(s, x) ==
    IF \E i \in 1..Len(s) : s[i] = x
    THEN RemoveAt(s, CHOOSE i \in 1..Len(s) : s[i] = x)
    ELSE s

Ended(t) == status[t] \in Ends
Quiet == owed = <<>>

\* A child or a worker task that is not started yet, in order.
NextTask(t) == status[t] = "new" /\ \A u \in Tasks : u < t => status[u] # "new"
NextFork(w) == fork[w].task = "new" /\ \A v \in Forks : v < w => fork[v].task # "new"

\* occupied: the slots that are held
Occupied == Len(list) + forks - lent

Init ==
    /\ queue = <<>> /\ list = <<>>
    /\ status = [t \in Tasks |-> "new"]
    /\ requested = {} /\ told = {}
    /\ body = [t \in Tasks |-> "none"]
    /\ by = [t \in Tasks |-> NoOne]
    /\ lending = {} /\ lent = 0
    /\ slotWaiters = <<>> /\ waiters = [t \in Tasks |-> <<>>]
    /\ failed = FALSE /\ cancelled = FALSE /\ deliberate = FALSE
    /\ settling = FALSE /\ closed = FALSE
    /\ forks = 0 /\ outstanding = <<>>
    /\ fork = [w \in Forks |-> [task |-> "new", lane |-> "none", end |-> "none",
                               by |-> NoOne, waiter |-> NoOne]]
    /\ cpu = Block
    /\ act = [t \in Tasks |-> [at |-> "new", on |-> 0, ready |-> FALSE]]
    /\ block = [at |-> "run", op |-> "none", on |-> 0, fork |-> 0, wait |-> "none", ready |-> FALSE]
    /\ left = [p \in Tasks \union {Block} |-> IF p = Block THEN BlockSteps ELSE TaskSteps]
    /\ owed = <<>>
    /\ wakers = {} /\ woken = FALSE /\ timer = "off"
    /\ turn = Activations
    /\ expired = FALSE

-----------------------------------------------------------------------------
(* Callbacks.  Each is the head of `owed`, and what it owes in turn comes
   before what was owed already. *)

\* fireWakers: the pump's own wait is resumed, the outward park is woken.
FireWakers ==
    /\ wakers' = {}
    /\ block' = IF "park" \in wakers THEN [block EXCEPT !.ready = TRUE] ELSE block
    /\ woken' = (woken \/ wakers # {})

\* Mutant: a child is queued and whoever parked is not woken.
MarkSilently(t) ==
    /\ queue' = IF Ended(t) \/ Contains(queue, t) THEN queue ELSE Append(queue, t)
    /\ UNCHANGED <<wakers, block, woken>>

\* markRunnable
MarkRunnable(t) ==
    IF Ended(t) \/ Contains(queue, t)
    THEN UNCHANGED <<queue, wakers, block, woken>>
    ELSE queue' = Append(queue, t) /\ FireWakers

\* What requestCancellation does with the children l and the worker tasks o.
Cancelling(l, o) == CallAll("request", l) \o CallAll("cancel", o)

\* wakeSlots: whoever lent its slot looks again.
WakeSlots == CallAll("resume", slotWaiters)

\* Mutant: a wait that is over does not make its child runnable.
RunResumeUnmarked ==
    /\ owed # <<>> /\ Head(owed).do = "resume"
    /\ LET t == Head(owed).who IN
       IF t = Block
       THEN /\ block' = [block EXCEPT !.ready = TRUE]
            /\ woken' = TRUE
            /\ UNCHANGED act
       ELSE /\ act' = [act EXCEPT ![t].ready = TRUE]
            /\ UNCHANGED <<block, woken>>
    /\ owed' = Tail(owed)
    /\ UNCHANGED <<queue, list, status, requested, told, body, by, slots, flags, lanes,
                   wakers, timer, turn, expired, cpu, left>>

\* The one-shot resume a subscription was given, for a child or the block.
RunResume ==
    /\ owed # <<>> /\ Head(owed).do = "resume"
    /\ LET t == Head(owed).who IN
       IF t = Block
       THEN /\ block' = [block EXCEPT !.ready = TRUE]
            /\ woken' = TRUE
            /\ UNCHANGED <<queue, act, wakers>>
       ELSE /\ act' = [act EXCEPT ![t].ready = TRUE]
            /\ MarkRunnable(t)
    /\ owed' = Tail(owed)
    /\ UNCHANGED <<list, status, requested, told, body, by, slots, flags, lanes,
                   timer, turn, expired, cpu, left>>

\* Mutant: a child asked to stop is not made runnable to observe it.
RunRequestUnmarked ==
    /\ owed # <<>> /\ Head(owed).do = "request"
    /\ requested' = requested \union {Head(owed).who}
    /\ owed' = Tail(owed)
    /\ UNCHANGED <<queue, list, status, told, body, by, slots, flags, lanes, host, cpu, act,
                   block, left>>

\* The step of requestCancellation's walk for one live child.
RunRequest ==
    /\ owed # <<>> /\ Head(owed).do = "request"
    /\ LET t == Head(owed).who IN
       /\ requested' = requested \union {t}
       /\ MarkRunnable(t)
    /\ owed' = Tail(owed)
    /\ UNCHANGED <<list, status, told, body, by, slots, flags, lanes, timer, turn,
                   expired, cpu, act, left>>

\* spawnRaw's markRunnable.
RunMark ==
    /\ owed # <<>> /\ Head(owed).do = "mark"
    /\ MarkRunnable(Head(owed).who)
    /\ owed' = Tail(owed)
    /\ UNCHANGED <<list, status, requested, told, body, by, slots, flags, lanes, timer,
                   turn, expired, cpu, act, left>>

\* Mutant: the observer hears of a settled worker task and keeps its slot.
ForkSettledHoldingSlot(w, st, after) ==
    /\ UNCHANGED forks
    /\ outstanding' = Without(outstanding, w)
    /\ failed' = (failed \/ st = "failed")
    /\ cancelled' = (cancelled \/ st = "failed")
    /\ slotWaiters' = <<>>
    /\ owed' = (IF st = "failed" THEN Cancelling(list, Without(outstanding, w)) ELSE <<>>)
               \o WakeSlots \o after

\* Mutant: a failed worker task is not the scope's failure.
ForkSettledQuietly(w, st, after) ==
    /\ forks' = forks - 1
    /\ outstanding' = Without(outstanding, w)
    /\ slotWaiters' = <<>>
    /\ owed' = WakeSlots \o after
    /\ UNCHANGED <<failed, cancelled>>

\* The observer of workersImpl, told that worker task w settled as st, and
\* the provider's delisting of it.  Nothing here calls fireWakers.
ForkSettled(w, st, after) ==
    /\ forks' = forks - 1
    /\ outstanding' = Without(outstanding, w)
    /\ failed' = (failed \/ st = "failed")
    /\ cancelled' = (cancelled \/ st = "failed")
    /\ slotWaiters' = <<>>
    /\ owed' = (IF st = "failed" THEN Cancelling(list, Without(outstanding, w)) ELSE <<>>)
               \o WakeSlots \o after

\* Mutant: the reply is marked as taken before it is read.
RouteLate(w) ==
    /\ fork[w].lane \in Replies
    /\ LET waiting == IF fork[w].waiter = NoOne THEN <<>> ELSE <<Call("resume", fork[w].waiter)>>
       IN /\ fork' = [fork EXCEPT ![w].task = "routed", ![w].lane = "routed", ![w].waiter = NoOne]
          /\ ForkSettled(w, "routed", waiting \o Tail(owed))

\* Mutant: the reply settles the task and nobody who waits for it is resumed.
RouteSilently(w) ==
    /\ fork[w].lane \in Replies
    /\ IF fork[w].task = "queued"
       THEN /\ fork' = [fork EXCEPT ![w].task = fork[w].lane, ![w].lane = "routed"]
            /\ ForkSettled(w, fork[w].lane, Tail(owed))
       ELSE /\ fork' = [fork EXCEPT ![w].lane = "routed"]
            /\ owed' = Tail(owed)
            /\ UNCHANGED <<forks, outstanding, failed, cancelled, slotWaiters>>

\* route: the lane's reply settles the task unless it was cancelled here
\* first, and resumes whoever waits for it.
Route(w) ==
    /\ fork[w].lane \in Replies
    /\ LET waiting == IF fork[w].waiter = NoOne THEN <<>> ELSE <<Call("resume", fork[w].waiter)>>
           after == waiting \o Tail(owed)
       IN IF fork[w].task = "queued"
          THEN /\ fork' = [fork EXCEPT ![w].task = fork[w].lane, ![w].lane = "routed",
                                       ![w].waiter = NoOne]
               /\ ForkSettled(w, fork[w].lane, after)
          ELSE /\ fork' = [fork EXCEPT ![w].lane = "routed", ![w].waiter = NoOne]
               /\ owed' = after
               /\ UNCHANGED <<forks, outstanding, failed, cancelled, slotWaiters>>

\* TaskImpl:isdone, and a poll that reaches the lane: route what is there.
RunRoute ==
    /\ owed # <<>> /\ Head(owed).do = "route"
    /\ LET w == Head(owed).who IN
       \/ Route(w)
       \/ /\ fork[w].lane \notin Replies
          /\ owed' = Tail(owed)
          /\ UNCHANGED <<lanes, failed, cancelled, slotWaiters>>
    /\ UNCHANGED <<schedule, lending, lent, waiters, deliberate, settling, closed, host,
                   cpu, act, block, left>>

\* TaskImpl:cancel: a reply that is there wins; a task its lane has not
\* started settles here and now; a running one is asked to stop; one that was
\* asked before, or has finished with its reply on the way, is left alone.
RunCancel ==
    /\ owed # <<>> /\ Head(owed).do = "cancel"
    /\ LET w == Head(owed).who IN
       \/ fork[w].task = "queued" /\ Route(w)
       \/ /\ fork[w].task = "queued" /\ fork[w].lane = "queued"
          /\ fork' = [fork EXCEPT ![w].task = "cancelled", ![w].lane = "dropped"]
          /\ ForkSettled(w, "cancelled", Tail(owed))
       \/ /\ fork[w].task = "queued" /\ fork[w].lane = "running"
          /\ fork' = [fork EXCEPT ![w].lane = "stopping"]
          /\ owed' = Tail(owed)
          /\ UNCHANGED <<forks, outstanding, failed, cancelled, slotWaiters>>
       \/ /\ fork[w].task # "queued" \/ fork[w].lane \in {"stopping", "finished"}
          /\ owed' = Tail(owed)
          /\ UNCHANGED <<lanes, failed, cancelled, slotWaiters>>
    /\ UNCHANGED <<schedule, lending, lent, waiters, deliberate, settling, closed, host,
                   cpu, act, block, left>>

-----------------------------------------------------------------------------
(* Settling and raising *)

Overdue == HasDeadline /\ expired

\* Mutant: the scope remembers that its time is up and asks nobody to stop.
DeadlineForgotten ==
    /\ cancelled' = (cancelled \/ Overdue)
    /\ UNCHANGED owed

\* deadlinePassed, which every pass of a driving loop calls again.
DeadlinePassed ==
    IF Overdue
    THEN cancelled' = TRUE /\ owed' = Cancelling(list, outstanding)
    ELSE UNCHANGED <<cancelled, owed>>

\* settleAgainstScope raises: the scope's failure first, then a cancellation
\* the scope did not ask for; nothing while it drains.
ScopeRaises == ~settling /\ (failed \/ (cancelled /\ ~deliberate))
Raised == IF failed THEN "raisedError" ELSE "raisedCancel"

\* Mutant: a child that unwinds keeps the slot it lent.
SettleChildLending(t, st, after) ==
    /\ status' = [status EXCEPT ![t] = st]
    /\ queue' = Without(queue, t)
    /\ list' = Without(list, t)
    /\ waiters' = [waiters EXCEPT ![t] = <<>>]
    /\ slotWaiters' = <<>>
    /\ owed' = CallAll("resume", waiters[t]) \o WakeSlots \o after
    /\ UNCHANGED <<lending, lent>>

\* Mutant: the child settles and its place in the queue stays runnable.
SettleChildQueued(t, st, after) ==
    /\ status' = [status EXCEPT ![t] = st]
    /\ list' = Without(list, t)
    /\ lending' = lending \ {t}
    /\ lent' = IF t \in lending THEN lent - 1 ELSE lent
    /\ waiters' = [waiters EXCEPT ![t] = <<>>]
    /\ slotWaiters' = <<>>
    /\ owed' = CallAll("resume", waiters[t]) \o WakeSlots \o after
    /\ UNCHANGED queue

\* Mutant: those who lent a slot are not told that one is free.
SettleChildSilently(t, st, after) ==
    /\ status' = [status EXCEPT ![t] = st]
    /\ queue' = Without(queue, t)
    /\ list' = Without(list, t)
    /\ lending' = lending \ {t}
    /\ lent' = IF t \in lending THEN lent - 1 ELSE lent
    /\ waiters' = [waiters EXCEPT ![t] = <<>>]
    /\ owed' = CallAll("resume", waiters[t]) \o after
    /\ UNCHANGED slotWaiters

\* Mutant: the waiters are called and stay registered.
SettleChildKeepingWaiters(t, st, after) ==
    /\ status' = [status EXCEPT ![t] = st]
    /\ queue' = Without(queue, t)
    /\ list' = Without(list, t)
    /\ lending' = lending \ {t}
    /\ lent' = IF t \in lending THEN lent - 1 ELSE lent
    /\ owed' = CallAll("resume", waiters[t]) \o WakeSlots \o after
    /\ UNCHANGED <<waiters, slotWaiters>>

\* settleChild: the child leaves the queue and the list, takes back what it
\* lent, and its waiters and the slot waiters are called.
SettleChild(t, st, after) ==
    /\ status' = [status EXCEPT ![t] = st]
    /\ queue' = Without(queue, t)
    /\ list' = Without(list, t)
    /\ lending' = lending \ {t}
    /\ lent' = IF t \in lending THEN lent - 1 ELSE lent
    /\ waiters' = [waiters EXCEPT ![t] = <<>>]
    /\ slotWaiters' = <<>>
    /\ owed' = CallAll("resume", waiters[t]) \o WakeSlots \o after

\* Mutant: the failure is recorded and the siblings are not asked to stop.
FinishAlone(t, st) ==
    /\ SettleChild(t, st, <<>>)
    /\ failed' = (failed \/ st = "failed")
    /\ act' = [act EXCEPT ![t].at = "over"]
    /\ cpu' = Block
    /\ UNCHANGED <<requested, told, by, cancelled, deliberate, settling, closed,
                   lanes, host, block, left>>

\* The end of resumeChild for a dead coroutine.  A failure is the scope's
\* before the child leaves, and its siblings are asked to stop after.
Finish(t, st) ==
    /\ SettleChild(t, st, IF st = "failed" THEN Cancelling(Without(list, t), outstanding) ELSE <<>>)
    /\ failed' = (failed \/ st = "failed")
    /\ cancelled' = (cancelled \/ st = "failed")
    /\ act' = [act EXCEPT ![t].at = "over"]
    /\ cpu' = Block
    /\ UNCHANGED <<requested, told, by, deliberate, settling, closed,
                   lanes, host, block, left>>

-----------------------------------------------------------------------------
(* Resuming a child *)

TurnAvailable == ~Hosted \/ turn > 0

\* takeRunnable and the resume in resumeChild.
ResumeChild ==
    /\ LET t == Head(queue) IN
       /\ cpu' = t
       /\ status' = [status EXCEPT ![t] = "running"]
    /\ queue' = Tail(queue)
    /\ turn' = IF Hosted THEN turn - 1 ELSE turn

Runs(t) == cpu = t /\ Quiet

\* Mutant: a child cancelled before it started calls its body all the same.
EnterCalling(t) ==
    /\ Runs(t) /\ act[t].at = "new"
    /\ body' = [body EXCEPT ![t] = "called"]
    /\ act' = [act EXCEPT ![t].at = "body"]
    /\ UNCHANGED <<queue, list, status, requested, told, by, slots, flags, lanes, host,
                   cpu, block, left, owed>>

\* The first resume: the body is called, or dropped where the child was
\* asked to stop before it started.
Enter(t) ==
    /\ Runs(t) /\ act[t].at = "new"
    /\ \/ /\ t \in requested
          /\ body' = [body EXCEPT ![t] = "released"]
          /\ Finish(t, "cancelled")
       \/ /\ t \notin requested
          /\ body' = [body EXCEPT ![t] = "called"]
          /\ act' = [act EXCEPT ![t].at = "body"]
          /\ UNCHANGED <<queue, list, status, requested, told, by, slots, flags, lanes,
                         host, cpu, block, left, owed>>

Observes(t) == t \in requested /\ act[t].at # "drain"

\* The park was given up: the wait is unsubscribed and the cancellation is
\* raised at it.  A lender still lends.
WakeCancelled(t) ==
    /\ Runs(t) /\ act[t].at \in Waits /\ Observes(t)
    /\ waiters' = [u \in Tasks |-> Without(waiters[u], t)]
    /\ slotWaiters' = Without(slotWaiters, t)
    /\ fork' = [w \in Forks |-> [fork[w] EXCEPT !.waiter = IF @ = t THEN NoOne ELSE @]]
    /\ act' = [act EXCEPT ![t] = [at |-> "raisedCancel", on |-> 0, ready |-> FALSE]]
    /\ told' = told \union {t}
    /\ UNCHANGED <<queue, list, status, requested, body, by, lending, lent, flags, forks,
                   outstanding, host, cpu, block, left, owed>>

\* The wait is not over: the child yields again.
WakeEarly(t) ==
    /\ Runs(t) /\ act[t].at \in Waits /\ ~Observes(t) /\ ~act[t].ready
    /\ cpu' = Block
    /\ UNCHANGED <<schedule, slots, flags, lanes, host, act, block, left, owed>>

\* The wait is over and returns into the body, or into the loop around it.
WakeReady(t) ==
    /\ Runs(t) /\ act[t].at \in {"ext", "await", "fork"} /\ ~Observes(t) /\ act[t].ready
    /\ act' = [act EXCEPT ![t].ready = FALSE,
                          ![t].at = CASE @ = "ext" -> "body"
                                      [] @ = "await" -> "awaited"
                                      [] @ = "fork" -> "forked"]
    /\ UNCHANGED <<schedule, slots, flags, lanes, host, cpu, block, left, owed>>

\* lendSlot's loop: park again while the scope is full, else take the slot back.
WakeLender(t) ==
    /\ Runs(t) /\ act[t].at = "lend" /\ ~Observes(t) /\ act[t].ready
    /\ IF Occupied >= Limit /\ ~failed
       THEN /\ slotWaiters' = Append(slotWaiters, t)
            /\ act' = [act EXCEPT ![t].ready = FALSE]
            /\ cpu' = Block
            /\ UNCHANGED <<lending, lent>>
       ELSE /\ lending' = lending \ {t}
            /\ lent' = lent - 1
            /\ act' = [act EXCEPT ![t] = [at |-> "body", on |-> 0, ready |-> FALSE]]
            /\ UNCHANGED <<slotWaiters, cpu>>
    /\ UNCHANGED <<schedule, waiters, flags, lanes, host, block, left, owed>>

\* A nested scope has drained.  It raises the cancellation its child was
\* asked for, unless it had cancelled its own children itself (on = 1).
WakeDrained(t) ==
    /\ Runs(t) /\ act[t].at = "drain" /\ act[t].ready
    /\ IF t \in requested /\ act[t].on = 0
       THEN /\ act' = [act EXCEPT ![t] = [at |-> "raisedCancel", on |-> 0, ready |-> FALSE]]
            /\ told' = told \union {t}
       ELSE /\ act' = [act EXCEPT ![t] = [at |-> "body", on |-> 0, ready |-> FALSE]]
            /\ UNCHANGED told
    /\ UNCHANGED <<queue, list, status, requested, body, by, slots, flags, lanes, host,
                   cpu, block, left, owed>>

-----------------------------------------------------------------------------
(* What a body does *)

\* A body performs one more operation.
Does(t, op) ==
    /\ Runs(t) /\ act[t].at = "body"
    /\ op \in TaskOps
    /\ left[t] > 0
    /\ left' = [left EXCEPT ![t] = @ - 1]

Parked(place, on) == [at |-> place, on |-> on, ready |-> FALSE]

\* An outcome other than a plain return: what is raised reaches the body.
Raises(t, place) == act' = [act EXCEPT ![t] = Parked(place, 0)]

\* A task handle is held by whoever started the task, and by the tasks the
\* same frame starts after it.
Holds(t, u) == status[u] \notin {"new", "admitting", "refused"} /\ (by[u] = t \/ (by[u] = by[t] /\ u < t))

\* The body returns, or fails on its own account.
BodyReturns(t) ==
    /\ Runs(t) /\ act[t].at = "body"
    /\ Finish(t, "done")
    /\ UNCHANGED body

BodyFails(t) ==
    /\ Runs(t) /\ act[t].at = "body" /\ "fail" \in TaskOps
    /\ Finish(t, "failed")
    /\ UNCHANGED body

\* What was raised unwinds the body: as it is, or replaced by a failure of
\* the cleanup it runs on the way.
Unwinds(t) ==
    /\ Runs(t)
    /\ \/ act[t].at = "raisedCancel" /\ Finish(t, "cancelled")
       \/ act[t].at = "raisedError" /\ Finish(t, "failed")
       \/ act[t].at = "raisedCancel" /\ "fail" \in TaskOps /\ Finish(t, "failed")
    /\ UNCHANGED body

\* The body catches what was raised and goes on.
Catch(t) ==
    /\ Runs(t) /\ act[t].at \in {"raisedCancel", "raisedError"}
    /\ Catches /\ (t \in lending => LenderCatches)
    /\ act' = [act EXCEPT ![t].at = "body"]
    /\ UNCHANGED <<schedule, slots, flags, lanes, host, cpu, block, left, owed>>

\* A wait on something outside the scope: a timer, a socket, a channel.
ParkExternally(t) ==
    /\ Does(t, "ext")
    /\ act' = [act EXCEPT ![t] = Parked("ext", 0)]
    /\ cpu' = Block
    /\ UNCHANGED <<schedule, slots, flags, lanes, host, block, owed>>

\* Leaving a scope the body opened, which parks until it has drained.
DrainNested(t, d) ==
    /\ Does(t, "drain")
    /\ act' = [act EXCEPT ![t] = Parked("drain", IF d THEN 1 ELSE 0)]
    /\ cpu' = Block
    /\ UNCHANGED <<schedule, slots, flags, lanes, host, block, owed>>

\* checkpoint
Checkpoint(t) ==
    /\ Does(t, "checkpoint")
    /\ DeadlinePassed
    /\ IF t \in requested \/ cancelled'
       THEN Raises(t, "raisedCancel") /\ told' = told \union {t}
       ELSE UNCHANGED <<act, told>>
    /\ UNCHANGED <<queue, list, status, requested, body, by, slots, failed, deliberate,
                   settling, closed, lanes, host, cpu, block>>

\* spawnRaw past admission: the child is registered, already asked to stop
\* where the scope was cancelled, and queued.
Register(u, parent) ==
    /\ list' = Append(list, u)
    /\ status' = [status EXCEPT ![u] = "queued"]
    /\ body' = [body EXCEPT ![u] = "held"]
    /\ by' = [by EXCEPT ![u] = parent]
    /\ requested' = IF cancelled THEN requested \union {u} ELSE requested
    /\ owed' = <<Call("mark", u)>>

\* Mutant: a refused spawn forgets the body it was handed.
RefuseBodyLeaking(u, parent) ==
    /\ status' = [status EXCEPT ![u] = "refused"]
    /\ by' = [by EXCEPT ![u] = parent]
    /\ UNCHANGED <<list, requested, body>>

\* spawnRaw refused: the body it was handed is dropped uncalled.
RefuseBody(u, parent) ==
    /\ status' = [status EXCEPT ![u] = "refused"]
    /\ body' = [body EXCEPT ![u] = "released"]
    /\ by' = [by EXCEPT ![u] = parent]
    /\ UNCHANGED <<list, requested>>

\* Mutant: the child goes on while its slot is lent.
LendRunning(t, full) ==
    /\ lending' = IF full THEN lending \union {t} ELSE lending
    /\ lent' = IF full THEN lent + 1 ELSE lent
    /\ UNCHANGED <<slotWaiters, act, cpu>>

\* Where the scope is full, the child lends its slot to what it started and
\* parks in lendSlot.
Lend(t, full) ==
    IF full
    THEN /\ lending' = lending \union {t}
         /\ lent' = lent + 1
         /\ slotWaiters' = Append(slotWaiters, t)
         /\ act' = [act EXCEPT ![t] = Parked("lend", 0)]
         /\ cpu' = Block
    ELSE UNCHANGED <<lending, lent, slotWaiters, act, cpu>>

Full == Occupied >= Limit /\ ~failed

\* scope:spawn called by a child of the scope.
Spawn(t, u) ==
    /\ Does(t, "spawn") /\ NextTask(u)
    /\ IF ScopeRaises
       THEN /\ RefuseBody(u, t)
            /\ Raises(t, Raised)
            /\ told' = IF failed THEN told ELSE told \union {t}
            /\ UNCHANGED <<lending, lent, slotWaiters, cpu, owed>>
       ELSE /\ Register(u, t)
            /\ Lend(t, Full)
            /\ UNCHANGED told
    /\ UNCHANGED <<queue, waiters, flags, lanes, host, block>>

\* workerScope:_submit and the observer's `created`.
Submit(w, parent) ==
    /\ fork' = [fork EXCEPT ![w] = [task |-> "queued", lane |-> "queued", end |-> "none",
                                  by |-> parent, waiter |-> NoOne]]
    /\ forks' = forks + 1
    /\ outstanding' = Append(outstanding, w)

\* startWorker called by a child of the scope.
Work(t, w) ==
    /\ Does(t, "work") /\ NextFork(w)
    /\ IF ScopeRaises
       THEN /\ Raises(t, Raised)
            /\ told' = IF failed THEN told ELSE told \union {t}
            /\ UNCHANGED <<lanes, lending, lent, slotWaiters, cpu>>
       ELSE /\ Submit(w, t)
            /\ Lend(t, Full)
            /\ UNCHANGED told
    /\ UNCHANGED <<queue, list, status, requested, body, by, waiters, flags, host, block, owed>>

\* TaskMT.await called by a child: it parks unless there is an answer.
Await(t, u) ==
    /\ Does(t, "await") /\ Holds(t, u)
    /\ \/ /\ ScopeRaises \/ Ended(u) \/ failed
          /\ act' = [act EXCEPT ![t] = Parked("awaited", u)]
          /\ UNCHANGED <<waiters, cpu>>
       \/ /\ ~ScopeRaises /\ ~Ended(u) /\ ~failed
          /\ act' = [act EXCEPT ![t] = Parked("await", u)]
          /\ waiters' = [waiters EXCEPT ![u] = Append(@, t)]
          /\ cpu' = Block
    /\ UNCHANGED <<schedule, lending, lent, slotWaiters, flags, lanes, host, block, owed>>

\* The end of TaskMT.await: what the scope owns, then what the sibling did.
\* While a failed scope drains there may be neither; reading the result
\* pack that is not there raises as well.
AwaitReturns(t) ==
    /\ Runs(t) /\ act[t].at = "awaited"
    /\ LET u == act[t].on IN
       IF ScopeRaises
       THEN /\ Raises(t, Raised)
            /\ told' = IF failed THEN told ELSE told \union {t}
       ELSE /\ Raises(t, CASE status[u] = "done" -> "body"
                           [] status[u] = "cancelled" -> "raisedCancel"
                           [] OTHER -> "raisedError")
            /\ UNCHANGED told
    /\ UNCHANGED <<queue, list, status, requested, body, by, slots, flags, lanes, host,
                   cpu, block, left, owed>>

\* ForkMT.await called by a child: isdone routes what its lane has answered.
AwaitFork(t, w) ==
    /\ Does(t, "forkAwait") /\ fork[w].by = t
    /\ IF ScopeRaises
       THEN /\ Raises(t, Raised)
            /\ told' = IF failed THEN told ELSE told \union {t}
            /\ UNCHANGED owed
       ELSE /\ act' = [act EXCEPT ![t] = Parked("forked", w)]
            /\ owed' = IF fork[w].task = "queued" THEN <<Call("route", w)>> ELSE <<>>
            /\ UNCHANGED told
    /\ UNCHANGED <<queue, list, status, requested, body, by, slots, flags, lanes, host,
                   cpu, block>>

\* It parks in waitFor until the reply is routed; then the deadline, what the
\* scope owns, and what the worker task did.
AwaitForkReturns(t) ==
    /\ Runs(t) /\ act[t].at = "forked"
    /\ LET w == act[t].on IN
       \/ /\ fork[w].task = "queued"
          /\ fork' = [fork EXCEPT ![w].waiter = t]
          /\ act' = [act EXCEPT ![t] = Parked("fork", w)]
          /\ cpu' = Block
          /\ UNCHANGED <<cancelled, owed, told>>
       \/ /\ fork[w].task # "queued"
          /\ DeadlinePassed
          /\ IF ~settling /\ (failed \/ (cancelled' /\ ~deliberate))
             THEN /\ Raises(t, Raised)
                  /\ told' = IF failed THEN told ELSE told \union {t}
             ELSE /\ Raises(t, CASE fork[w].task = "done" -> "body"
                                 [] fork[w].task = "cancelled" -> "raisedCancel"
                                 [] OTHER -> "raisedError")
                  /\ UNCHANGED told
          /\ UNCHANGED <<fork, cpu>>
    /\ UNCHANGED <<queue, list, status, requested, body, by, slots, failed, deliberate,
                   settling, closed, forks, outstanding, host, block, left>>

\* ForkMT.cancel
CancelFork(t, w) ==
    /\ Does(t, "cancelFork") /\ fork[w].by = t
    /\ owed' = <<Call("cancel", w)>>
    /\ UNCHANGED <<schedule, slots, flags, lanes, host, cpu, act, block>>

\* TaskMT.cancel: once; a child that has not started settles here and its
\* body is dropped, a running one becomes runnable to observe it.
CancelChild(u) ==
    \/ /\ u \in requested \/ Ended(u)
       /\ UNCHANGED <<queue, list, status, requested, body, lending, lent, waiters, slotWaiters, act, owed>>
    \/ /\ u \notin requested /\ status[u] = "queued"
       /\ requested' = requested \union {u}
       /\ body' = [body EXCEPT ![u] = "released"]
       /\ act' = [act EXCEPT ![u].at = "over"]
       /\ SettleChild(u, "cancelled", <<>>)
    \/ /\ u \notin requested /\ status[u] = "running"
       /\ requested' = requested \union {u}
       /\ owed' = <<Call("mark", u)>>
       /\ UNCHANGED <<queue, list, status, body, lending, lent, waiters, slotWaiters, act>>

CancelTask(t, u) ==
    /\ Does(t, "cancelTask") /\ Holds(t, u)
    /\ CancelChild(u)
    /\ UNCHANGED <<told, by, flags, lanes, host, cpu, block>>

\* cancelImpl: the scope's own decision.
CancelImpl ==
    /\ deliberate' = TRUE
    /\ cancelled' = TRUE
    /\ owed' = Cancelling(list, outstanding)

CancelScope(t) ==
    /\ Does(t, "cancelScope")
    /\ CancelImpl
    /\ UNCHANGED <<schedule, slots, failed, settling, closed, lanes, host, cpu, act, block>>

-----------------------------------------------------------------------------
(* The block *)

BlockRuns(at) == cpu = Block /\ Quiet /\ block.at = at

\* The block performs one more operation.
BlockDoes(op) ==
    /\ BlockRuns("run")
    /\ op \in BlockOps
    /\ left[Block] > 0
    /\ left' = [left EXCEPT ![Block] = @ - 1]

Doing(at, op, on) ==
    [at |-> at, op |-> op, on |-> on, fork |-> 0, wait |-> "none", ready |-> FALSE]
Running == Doing("run", "none", 0)

\* scope:spawn and scope:work: what the scope owns, then awaitSlot.  The
\* child's record exists, and holds the body, before anything can refuse it.
BlockSpawn(u) ==
    /\ BlockDoes("spawn") /\ NextTask(u)
    /\ IF ScopeRaises
       THEN /\ RefuseBody(u, Block)
            /\ UNCHANGED block
       ELSE /\ status' = [status EXCEPT ![u] = "admitting"]
            /\ body' = [body EXCEPT ![u] = "held"]
            /\ by' = [by EXCEPT ![u] = Block]
            /\ block' = Doing("slot", "spawn", u)
            /\ UNCHANGED <<list, requested>>
    /\ UNCHANGED <<queue, told, slots, flags, lanes, host, cpu, act, owed>>

BlockWork(w) ==
    /\ BlockDoes("work") /\ NextFork(w)
    /\ IF ScopeRaises
       THEN UNCHANGED <<fork, block>>
       ELSE /\ fork' = [fork EXCEPT ![w].task = "admitting"]
            /\ block' = Doing("slot", "work", w)
    /\ UNCHANGED <<schedule, slots, flags, forks, outstanding, host, cpu, act, owed>>

\* The pending spawn is refused; a worker task has no body to drop.
BlockRefused ==
    IF block.op = "spawn"
    THEN /\ RefuseBody(block.on, Block)
         /\ UNCHANGED fork
    ELSE /\ fork' = [fork EXCEPT ![block.on].task = "refused"]
         /\ UNCHANGED <<list, status, requested, body, by>>

\* Mutant: the slot is taken as soon as anything has settled.
SlotFreeEarly == Occupied <= Limit \/ failed

\* The test of awaitSlot's loop.
SlotFree == Occupied < Limit \/ failed

\* awaitSlot's loop found room, a failure, or nothing that could be waited
\* for: what the scope owns is raised, or the child or worker task starts.
SlotTaken ==
    /\ BlockRuns("slot") /\ (SlotFree \/ (list = <<>> /\ outstanding = <<>>))
    /\ IF ScopeRaises
       THEN BlockRefused /\ UNCHANGED <<forks, outstanding, owed>>
       ELSE IF block.op = "spawn"
            THEN Register(block.on, Block) /\ UNCHANGED lanes
            ELSE Submit(block.on, Block) /\ UNCHANGED <<list, status, requested, body, by, owed>>
    /\ block' = Running
    /\ UNCHANGED <<queue, told, slots, flags, host, cpu, act, left>>

\* The scope is full: drive the children, or wait for the oldest worker task
\* where only lanes hold the slots.
SlotWanted ==
    /\ BlockRuns("slot") /\ ~SlotFree
    /\ \/ /\ list # <<>>
          /\ block' = [block EXCEPT !.at = "pump"]
          /\ UNCHANGED owed
       \/ /\ list = <<>> /\ outstanding # <<>>
          /\ block' = [block EXCEPT !.at = "reply", !.fork = Head(outstanding)]
          /\ owed' = <<Call("route", Head(outstanding))>>
    /\ UNCHANGED <<schedule, slots, flags, lanes, host, cpu, act, left>>

\* TaskMT.await in the frame that drives the scope.
BlockAwait(u) ==
    /\ BlockDoes("await") /\ by[u] = Block /\ status[u] # "refused"
    /\ block' = IF ScopeRaises \/ Ended(u) THEN Running ELSE Doing("pump", "await", u)
    /\ UNCHANGED <<schedule, slots, flags, lanes, host, cpu, act, owed>>

BlockAwaitFork(w) ==
    /\ BlockDoes("forkAwait") /\ fork[w].by = Block
    /\ IF ScopeRaises
       THEN UNCHANGED <<block, owed>>
       ELSE /\ block' = [Doing("reply", "fork", 0) EXCEPT !.fork = w]
            /\ owed' = IF fork[w].task = "queued" THEN <<Call("route", w)>> ELSE <<>>
    /\ UNCHANGED <<schedule, slots, flags, lanes, host, cpu, act>>

\* The block waits on something of its own, in frameHandler's park.
BlockParks ==
    /\ BlockDoes("ext")
    /\ block' = [Doing("drive", "ext", 0) EXCEPT !.wait = "ext"]
    /\ UNCHANGED <<schedule, slots, flags, lanes, host, cpu, act, owed>>

BlockCancelTask(u) ==
    /\ BlockDoes("cancelTask") /\ by[u] = Block /\ status[u] # "refused"
    /\ CancelChild(u)
    /\ UNCHANGED <<told, by, flags, lanes, host, cpu, block>>

BlockCancelFork(w) ==
    /\ BlockDoes("cancelFork") /\ fork[w].by = Block
    /\ owed' = <<Call("cancel", w)>>
    /\ UNCHANGED <<schedule, slots, flags, lanes, host, cpu, act, block>>

BlockCancelScope ==
    /\ BlockDoes("cancelScope")
    /\ CancelImpl
    /\ UNCHANGED <<schedule, slots, failed, settling, closed, lanes, host, cpu, act, block>>

BlockCheckpoint ==
    /\ BlockDoes("checkpoint")
    /\ DeadlinePassed
    /\ UNCHANGED <<schedule, slots, failed, deliberate, settling, closed, lanes, host, cpu,
                   act, block>>

\* closeScope enters settle: the scope asks again where it failed, and drains.
BlockCloses ==
    /\ BlockRuns("run")
    /\ settling' = TRUE
    /\ block' = Doing("pump", "drain", 0)
    /\ owed' = IF failed THEN Cancelling(list, outstanding) ELSE <<>>
    /\ UNCHANGED <<schedule, slots, failed, cancelled, deliberate, closed, lanes, host, cpu,
                   act, left>>

-----------------------------------------------------------------------------
(* pump *)

\* What the pump was called to wait for.
Settled ==
    CASE block.op = "await" -> Ended(block.on) \/ failed
      [] block.op \in {"spawn", "work"} -> SlotFree \/ list = <<>>
      [] block.op = "drain" -> list = <<>>

PumpReturns ==
    /\ BlockRuns("pump") /\ Settled
    /\ block' = CASE block.op = "await" -> Running
                  [] block.op \in {"spawn", "work"} -> [block EXCEPT !.at = "slot"]
                  [] OTHER -> [block EXCEPT !.at = "workers"]
    /\ UNCHANGED <<schedule, slots, flags, lanes, host, cpu, act, left, owed>>

\* The head of a pass: the deadline.
PumpPass ==
    /\ BlockRuns("pump") /\ ~Settled
    /\ DeadlinePassed
    /\ block' = [block EXCEPT !.at = "pumping"]
    /\ UNCHANGED <<schedule, slots, failed, deliberate, settling, closed, lanes, host, cpu,
                   act, left>>

PumpResumes ==
    /\ BlockRuns("pumping") /\ TurnAvailable /\ queue # <<>>
    /\ ResumeChild
    /\ block' = [block EXCEPT !.at = "pump"]
    /\ UNCHANGED <<list, requested, told, body, by, slots, flags, lanes, wakers, woken,
                   timer, expired, act, left, owed>>

\* suspend(parkScope): the waker and the timer, then frameHandler's park.
PumpParks ==
    /\ BlockRuns("pumping") /\ queue = <<>>
    /\ wakers' = wakers \union {"park"}
    /\ timer' = IF HasDeadline THEN "set" ELSE timer
    /\ block' = [block EXCEPT !.at = "drive", !.wait = "scope", !.ready = FALSE]
    /\ UNCHANGED <<schedule, slots, flags, lanes, woken, turn, expired, cpu, act, left, owed>>

\* deferTurn
PumpDefers ==
    /\ BlockRuns("pumping") /\ ~TurnAvailable /\ queue # <<>>
    /\ block' = [block EXCEPT !.at = "drive", !.wait = "turn", !.ready = FALSE]
    /\ UNCHANGED <<schedule, slots, flags, lanes, host, cpu, act, left, owed>>

-----------------------------------------------------------------------------
(* frameHandler, which drives the children while the frame waits *)

\* Mutant: an abandoned spawn forgets the body it was handed.
AbandonLeaking ==
    /\ block' = Running
    /\ wakers' = {}
    /\ timer' = "off"
    /\ fork' = [w \in Forks |->
                  [fork[w] EXCEPT !.waiter = IF @ = Block THEN NoOne ELSE @,
                                  !.task = IF block.op = "work" /\ block.on = w THEN "refused" ELSE @]]
    /\ UNCHANGED <<list, requested, body>>
    /\ IF block.op = "spawn"
       THEN status' = [status EXCEPT ![block.on] = "refused"] /\ by' = [by EXCEPT ![block.on] = Block]
       ELSE UNCHANGED <<status, by>>

\* The wait raises out of whatever the block was doing: it is unsubscribed,
\* and a spawn that waited for a slot is refused.
Abandon ==
    /\ block' = Running
    /\ wakers' = {}
    /\ timer' = "off"
    /\ fork' = [w \in Forks |->
                  [fork[w] EXCEPT !.waiter = IF @ = Block THEN NoOne ELSE @,
                                  !.task = IF block.op = "work" /\ block.on = w THEN "refused" ELSE @]]
    /\ IF block.op = "spawn"
       THEN RefuseBody(block.on, Block)
       ELSE UNCHANGED <<list, status, requested, body, by>>

\* The loop's head, or its end where the wait is over; the deadline both ways.
DrivePass ==
    /\ BlockRuns("drive")
    /\ DeadlinePassed
    /\ block' = [block EXCEPT !.at = IF block.ready THEN "leaving" ELSE "driving"]
    /\ UNCHANGED <<schedule, slots, failed, deliberate, settling, closed, lanes, host, cpu,
                   act, left>>

\* The scope has something to raise and the wait is given up for it, in the
\* loop and after it.
DriveRaises ==
    /\ BlockRuns("driving") \/ BlockRuns("leaving")
    /\ ScopeRaises
    /\ Abandon
    /\ UNCHANGED <<queue, told, slots, flags, forks, outstanding, woken, turn, expired,
                   cpu, act, left, owed>>

DriveResumes ==
    /\ BlockRuns("driving") /\ ~ScopeRaises /\ TurnAvailable /\ queue # <<>>
    /\ ResumeChild
    /\ block' = [block EXCEPT !.at = "drive"]
    /\ UNCHANGED <<list, requested, told, body, by, slots, flags, lanes, wakers, woken,
                   timer, expired, act, left, owed>>

\* parkOutward: the host looks at the combined wait before it sleeps on it.
DriveParks ==
    /\ BlockRuns("driving") /\ ~ScopeRaises /\ ~(TurnAvailable /\ queue # <<>>)
    /\ cpu' = Host
    /\ block' = [block EXCEPT !.at = "out"]
    /\ woken' = TRUE
    /\ UNCHANGED <<schedule, slots, flags, lanes, wakers, timer, turn, expired, act, left, owed>>

\* The wait returns into the pump, the body or the wait for a worker task.
DriveLeaves ==
    /\ BlockRuns("leaving") /\ ~ScopeRaises
    /\ block' = CASE block.wait = "ext" -> Running
                  [] block.wait = "reply" -> [block EXCEPT !.at = "reply", !.wait = "none"]
                  [] OTHER -> [block EXCEPT !.at = "pump", !.wait = "none"]
    /\ wakers' = {}
    /\ timer' = "off"
    /\ UNCHANGED <<schedule, slots, flags, lanes, woken, turn, expired, cpu, act, left, owed>>

-----------------------------------------------------------------------------
(* Worker tasks the block waits for, and the end of settle *)

\* waitFor: park until the reply is routed.
ReplyAwaited ==
    /\ BlockRuns("reply") /\ fork[block.fork].task = "queued"
    /\ fork' = [fork EXCEPT ![block.fork].waiter = Block]
    /\ block' = [block EXCEPT !.at = "drive", !.wait = "reply", !.ready = FALSE]
    /\ UNCHANGED <<schedule, slots, flags, forks, outstanding, host, cpu, act, left, owed>>

\* The worker task has settled: ForkMT.await looks at the deadline and
\* returns, awaitSlot looks for room again, close goes on to the next.
ReplyTaken ==
    /\ BlockRuns("reply") /\ fork[block.fork].task # "queued"
    /\ IF block.op = "fork" THEN DeadlinePassed ELSE UNCHANGED <<cancelled, owed>>
    /\ block' = CASE block.op = "fork" -> Running
                  [] block.op \in {"spawn", "work"} -> [block EXCEPT !.at = "slot"]
                  [] OTHER -> [block EXCEPT !.at = "workers"]
    /\ UNCHANGED <<schedule, slots, failed, deliberate, settling, closed, lanes, host, cpu,
                   act, left>>

\* workerScope:close settles every listed task in turn.
WorkersDrain ==
    /\ BlockRuns("workers") /\ outstanding # <<>>
    /\ block' = [block EXCEPT !.at = "reply", !.fork = Head(outstanding)]
    /\ owed' = <<Call("route", Head(outstanding))>>
    /\ UNCHANGED <<schedule, slots, flags, lanes, host, cpu, act, left>>

\* Mutant: the scope closes without waiting for its worker tasks.
ScopeClosesEarly ==
    /\ BlockRuns("workers")
    /\ settling' = FALSE
    /\ closed' = TRUE
    /\ block' = Doing("done", "none", 0)
    /\ UNCHANGED <<schedule, slots, failed, cancelled, deliberate, lanes, host, cpu, act,
                   left, owed>>

\* The end of settle and closeScope.
ScopeCloses ==
    /\ BlockRuns("workers") /\ outstanding = <<>>
    /\ settling' = FALSE
    /\ closed' = TRUE
    /\ block' = Doing("done", "none", 0)
    /\ UNCHANGED <<schedule, slots, failed, cancelled, deliberate, lanes, host, cpu, act,
                   left, owed>>

-----------------------------------------------------------------------------
(* The host, the lanes and the clock *)

HostRuns == cpu = Host /\ Quiet

\* scopeReady and the combined wait that derive builds.
ScopeReady ==
    \/ queue # <<>> /\ TurnAvailable
    \/ ~settling /\ (failed \/ Overdue \/ (cancelled /\ ~deliberate))
CombinedReady == block.ready \/ ScopeReady

\* The blocking park polls the combined wait; a host looks at it when it has
\* been woken.  Either way the loop in frameHandler goes on.
HostResumes ==
    /\ HostRuns /\ CombinedReady /\ (Hosted => woken)
    /\ cpu' = Block
    /\ block' = [block EXCEPT !.at = "drive"]
    /\ wakers' = wakers \ {"arm"}
    /\ timer' = IF block.wait = "scope" THEN timer ELSE "off"
    /\ woken' = FALSE
    /\ UNCHANGED <<schedule, slots, flags, lanes, turn, expired, act, left, owed>>

\* A host that finds the wait not ready arms it and sleeps: armScope.
HostArms ==
    /\ HostRuns /\ Hosted /\ woken /\ ~CombinedReady
    /\ wakers' = wakers \union {"arm"}
    /\ timer' = IF HasDeadline /\ timer = "off" THEN "set" ELSE timer
    /\ woken' = FALSE
    /\ UNCHANGED <<schedule, slots, flags, lanes, turn, expired, cpu, act, block, left, owed>>

\* The host's poll resumes a child's wait that is over: what it waited for
\* outside the scope, or the nested scope it drains.
ExternalReady(t) ==
    /\ HostRuns /\ act[t].at \in {"ext", "drain"} /\ ~act[t].ready
    /\ owed' = <<Call("resume", t)>>
    /\ UNCHANGED <<schedule, slots, flags, lanes, host, cpu, act, block, left>>

\* The same for the block's own wait.
BlockReady ==
    /\ HostRuns /\ block.wait = "ext" /\ ~block.ready
    /\ owed' = <<Call("resume", Block)>>
    /\ UNCHANGED <<schedule, slots, flags, lanes, host, cpu, act, block, left>>

\* The worker scheduler's source routes a reply.
RouteReply(w) ==
    /\ HostRuns /\ fork[w].lane \in Replies
    /\ owed' = <<Call("route", w)>>
    /\ UNCHANGED <<schedule, slots, flags, lanes, host, cpu, act, block, left>>

\* The deadline's timer.
TimerFires ==
    /\ HostRuns /\ timer = "set" /\ expired
    /\ timer' = "fired"
    /\ FireWakers
    /\ UNCHANGED <<schedule, slots, flags, lanes, turn, expired, cpu, act, left, owed>>

\* A host poll opens the next turn and resumes whoever deferred to it.
NextTurn ==
    /\ HostRuns /\ Hosted /\ (turn < Activations \/ (block.wait = "turn" /\ ~block.ready))
    /\ turn' = Activations
    /\ owed' = IF block.wait = "turn" /\ ~block.ready THEN <<Call("resume", Block)>> ELSE <<>>
    /\ UNCHANGED <<schedule, slots, flags, lanes, wakers, woken, timer, expired, cpu, act,
                   block, left>>

\* A lane starts its task and finishes it, and the reply follows.  A task
\* cancelled in the queue is not run, nor one whose time is up; one that was
\* asked to stop, or ran past the deadline, returns nothing.
LaneStarts(w) ==
    /\ fork[w].lane = "queued" /\ ~Overdue
    /\ fork' = [fork EXCEPT ![w].lane = "running"]
    /\ UNCHANGED <<schedule, slots, flags, forks, outstanding, host, cpu, act, block, left, owed>>

LaneFinishes(w, outcome) ==
    /\ \/ fork[w].lane = "queued" /\ Overdue /\ outcome = "cancelled"
       \/ fork[w].lane = "dropped" /\ outcome = "cancelled"
       \/ fork[w].lane = "running" /\ (outcome = "done" => ~Overdue)
       \/ fork[w].lane = "stopping" /\ outcome # "done"
    /\ fork' = [fork EXCEPT ![w].lane = "finished", ![w].end = outcome]
    /\ UNCHANGED <<schedule, slots, flags, forks, outstanding, host, cpu, act, block, left, owed>>

LaneReplies(w) ==
    /\ fork[w].lane = "finished"
    /\ fork' = [fork EXCEPT ![w].lane = fork[w].end]
    /\ UNCHANGED <<schedule, slots, flags, forks, outstanding, host, cpu, act, block, left, owed>>

\* The clock reaches the deadline.
ClockPasses ==
    /\ HasDeadline /\ ~expired /\ ~closed
    /\ expired' = TRUE
    /\ UNCHANGED <<schedule, slots, flags, lanes, wakers, woken, timer, turn, cpu, act,
                   block, left, owed>>

-----------------------------------------------------------------------------
RunCallback == RunResume \/ RunRequest \/ RunMark \/ RunRoute \/ RunCancel

TaskStep(t) ==
    \/ Enter(t) \/ WakeCancelled(t) \/ WakeEarly(t) \/ WakeReady(t) \/ WakeLender(t)
    \/ WakeDrained(t) \/ BodyReturns(t) \/ BodyFails(t) \/ Unwinds(t) \/ Catch(t)
    \/ ParkExternally(t) \/ Checkpoint(t) \/ AwaitReturns(t) \/ AwaitForkReturns(t)
    \/ CancelScope(t)
    \/ \E d \in Deliberate : DrainNested(t, d)
    \/ \E u \in Tasks : Spawn(t, u) \/ Await(t, u) \/ CancelTask(t, u)
    \/ \E w \in Forks : Work(t, w) \/ AwaitFork(t, w) \/ CancelFork(t, w)

BlockStep ==
    \/ \E u \in Tasks : BlockSpawn(u) \/ BlockAwait(u) \/ BlockCancelTask(u)
    \/ \E w \in Forks : BlockWork(w) \/ BlockAwaitFork(w) \/ BlockCancelFork(w)
    \/ BlockParks \/ BlockCancelScope \/ BlockCheckpoint \/ BlockCloses
    \/ SlotTaken \/ SlotWanted
    \/ PumpReturns \/ PumpPass \/ PumpResumes \/ PumpParks \/ PumpDefers
    \/ DrivePass \/ DriveRaises \/ DriveResumes \/ DriveParks \/ DriveLeaves
    \/ ReplyAwaited \/ ReplyTaken \/ WorkersDrain \/ ScopeCloses

HostStep ==
    \/ HostResumes \/ HostArms \/ BlockReady \/ TimerFires \/ NextTurn
    \/ \E t \in Tasks : ExternalReady(t)
    \/ \E w \in Forks : RouteReply(w)

LaneStep(w) == LaneStarts(w) \/ LaneReplies(w) \/ \E outcome \in Replies : LaneFinishes(w, outcome)

Next ==
    \/ RunCallback
    \/ \E t \in Tasks : TaskStep(t)
    \/ BlockStep
    \/ HostStep
    \/ \E w \in Forks : LaneStep(w)
    \/ ClockPasses

Spec == Init /\ [][Next]_vars

\* The Lua state runs while it has something to run, a host looks at the wait
\* it was woken for, lanes work and answer, a set timer fires, and a poll
\* drives every source: what is ready whenever the host polls is delivered.
Fairness ==
    /\ WF_vars(RunCallback) /\ WF_vars(BlockStep)
    /\ \A t \in Tasks : WF_vars(TaskStep(t)) /\ SF_vars(ExternalReady(t))
    /\ \A w \in Forks : WF_vars(LaneStep(w)) /\ SF_vars(RouteReply(w))
    /\ WF_vars(HostResumes) /\ WF_vars(HostArms) /\ SF_vars(BlockReady)
    /\ WF_vars(TimerFires) /\ WF_vars(NextTurn)

FairSpec == Spec /\ Fairness

-----------------------------------------------------------------------------
(* Properties *)

Statuses == {"new", "admitting", "refused", "queued", "running"} \union Ends
BlockPlaces == {"run", "slot", "pump", "pumping", "drive", "driving", "leaving", "out",
                "reply", "workers", "done"}
BlockOperations == {"none", "spawn", "work", "await", "fork", "ext", "drain"}
Callbacks == [do : {"resume"}, who : Tasks \union {Block}]
             \union [do : {"request", "mark"}, who : Tasks]
             \union [do : {"route", "cancel"}, who : Forks]
ForkRecords ==
    [task : {"new", "admitting", "refused", "queued"} \union Ends,
     lane : {"none", "queued", "running", "stopping", "dropped", "finished", "routed"} \union Replies,
     end : {"none"} \union Replies,
     by : Tasks \union {Block, NoOne},
     waiter : Tasks \union {Block, NoOne}]

ScheduleOK ==
    /\ queue \in Seq(Tasks) /\ list \in Seq(Tasks)
    /\ status \in [Tasks -> Statuses]
    /\ requested \in SUBSET Tasks /\ told \in SUBSET Tasks
    /\ body \in [Tasks -> {"none", "held", "called", "released"}]
    /\ by \in [Tasks -> Tasks \union {Block, NoOne}]

SlotsOK ==
    /\ lending \in SUBSET Tasks /\ lent \in Int
    /\ slotWaiters \in Seq(Tasks) /\ waiters \in [Tasks -> Seq(Tasks)]

FlagsOK ==
    /\ failed \in BOOLEAN /\ cancelled \in BOOLEAN /\ deliberate \in BOOLEAN
    /\ settling \in BOOLEAN /\ closed \in BOOLEAN

LanesOK == forks \in Int /\ outstanding \in Seq(Forks) /\ fork \in [Forks -> ForkRecords]

HostOK ==
    /\ wakers \in SUBSET {"park", "arm"} /\ woken \in BOOLEAN
    /\ timer \in {"off", "set", "fired"}
    /\ turn \in Int /\ expired \in BOOLEAN

\* What the block is starting is a child or a worker task, and it looks for a
\* slot for nothing else.
BlockOK ==
    /\ block \in [at : BlockPlaces, op : BlockOperations, on : Nat, fork : Nat,
                  wait : {"none", "scope", "turn", "ext", "reply"}, ready : BOOLEAN]
    /\ block.op = "spawn" => block.on \in Tasks
    /\ block.op = "work" => block.on \in Forks
    /\ block.at = "slot" => block.op \in {"spawn", "work"}

ControlOK ==
    /\ cpu \in Tasks \union {Block, Host}
    /\ act \in [Tasks -> [at : Places, on : Nat, ready : BOOLEAN]]
    /\ left \in [Tasks \union {Block} -> Nat]
    /\ owed \in Seq(Callbacks)

TypeOK == ScheduleOK /\ SlotsOK /\ FlagsOK /\ LanesOK /\ HostOK /\ BlockOK /\ ControlOK

Live(t) == status[t] \in {"queued", "running"}
Distinct(s) == \A i, j \in 1..Len(s) : s[i] = s[j] => i = j

\* The list holds every live child once and nothing else, the queue only live
\* children and each once: no settled child is ever resumed, none is counted
\* twice, however cancellation, settlement and wakeups interleave.
Membership ==
    /\ Distinct(list) /\ Distinct(queue)
    /\ \A t \in Tasks : Contains(list, t) <=> Live(t)
    /\ \A i \in 1..Len(queue) : Live(queue[i])

\* Fail-fast: once the scope owns a failure or is cancelled, every live child
\* has been asked to stop, the ones started afterwards too.
FamilyAsked == Quiet /\ (failed \/ cancelled) => \A t \in Tasks : Live(t) => t \in requested

\* A failure is the scope's from the moment it happens, a child's or a worker
\* task's, whether or not anybody awaited it.
FailureOwned ==
    (\E t \in Tasks : status[t] = "failed") \/ (\E w \in Forks : fork[w].task = "failed")
        => failed /\ cancelled

\* A body handed to spawn is called or dropped, never both and never neither:
\* a child that settled or was refused has not kept it, and a dropped body
\* never ran.
BodyOnce ==
    \A t \in Tasks :
        /\ Ended(t) \/ status[t] = "refused" => body[t] \in {"called", "released"}
        /\ body[t] = "released" => act[t].at \in {"new", "over"} /\ ~Live(t)
        /\ body[t] = "called" => act[t].at # "new"

\* Queued children settle without running: a body is never called once its
\* child has been asked to stop.
NeverStartsAsked ==
    [][\A t \in Tasks : t \in requested /\ body[t] # "called" => body'[t] # "called"]_vars

\* A worker task holds one slot from submission to settlement.
ForksCounted ==
    /\ forks = Len(outstanding) /\ Distinct(outstanding)
    /\ \A w \in Forks : Contains(outstanding, w) <=> fork[w].task = "queued"

\* The slots lent are those of the children in lendSlot, and such a child is
\* parked or unwinding.
LentExactly == lent = Cardinality(lending) /\ \A t \in lending : Live(t)
LenderParked == \A t \in lending : act[t].at \in {"lend", "raisedCancel"}

\* The children that hold a slot and the worker tasks never outnumber the
\* limit, until a failure ends the lending.
LimitHeld ==
    failed \/ Cardinality({t \in Tasks : Live(t) /\ t \notin lending}) + forks <= Limit

\* Every registered resume is the resume of a wait that is still open, and
\* every open wait has one: a resume made twice raises in the settling loop,
\* one never made leaves the waiter parked for good.
Awaiting(t, u) == act[t].at = "await" /\ act[t].on = u /\ ~act[t].ready
Resuming(t) == \E i \in 1..Len(owed) : owed[i] = Call("resume", t)
WaitersSound ==
    /\ \A u \in Tasks : Distinct(waiters[u])
    /\ \A t, u \in Tasks : Contains(waiters[u], t) => Awaiting(t, u)
    /\ \A t, u \in Tasks : Awaiting(t, u) => Contains(waiters[u], t) # Resuming(t)
    /\ Distinct(slotWaiters)
    /\ \A t \in Tasks : Contains(slotWaiters, t) => act[t].at = "lend" /\ ~act[t].ready
    /\ \A t \in Tasks : act[t].at = "lend" /\ ~act[t].ready =>
                            Contains(slotWaiters, t) # Resuming(t)
    /\ \A t \in Tasks : Resuming(t) => act[t].at \in Waits /\ ~act[t].ready
    /\ \A i, j \in 1..Len(owed) :
         owed[i].do = "resume" /\ owed[i] = owed[j] => i = j

\* "Running ones observe the request at their next checkpoint or wait": a
\* parked child that was asked to stop and has not been told is runnable.
\* One that drains a scope of its own may park.
RequestObserved ==
    \A t \in Tasks :
        Quiet /\ cpu # t /\ t \in requested \ told /\ act[t].at \in Waits \ {"drain"}
            => Contains(queue, t)

\* A host sleeping on the combined wait has nothing to do for the scope, or
\* the deadline's timer is still to fire.
HostNotNeeded ==
    HostRuns /\ Hosted /\ ~woken /\ CombinedReady => Overdue /\ timer = "set"

\* "A settlement is what lets it continue": a block parked for a slot is not
\* left asleep on the scope when there is room.
SlotNoticed ==
    HostRuns /\ block.op \in {"spawn", "work"} /\ block.wait = "scope" /\ SlotFree
        => block.ready \/ ScopeReady

\* await returns a settled task's results, or what the scope owns.
AwaitAnswered ==
    \A t \in Tasks : Runs(t) /\ act[t].at = "awaited" => Ended(act[t].on) \/ ScopeRaises

\* A closed scope has left nothing behind: no live child, worker task, lent
\* slot, waiter or uncalled body.
ClosedSettled ==
    closed =>
        /\ list = <<>> /\ queue = <<>> /\ forks = 0
        /\ lent = 0 /\ slotWaiters = <<>>
        /\ \A t \in Tasks : ~Live(t) /\ body[t] # "held" /\ waiters[t] = <<>>
        /\ \A w \in Forks : fork[w].task # "queued"

\* A task settles once: neither its status nor a worker task's ever changes
\* again, whatever cancellation, reply or wakeup comes late.
SettledForever ==
    [][/\ \A t \in Tasks : Ended(t) => status'[t] = status[t]
       /\ \A w \in Forks : fork[w].task \in Ends => fork'[w].task = fork[w].task]_vars

\* Children are listed exactly while they live, every wait has its one resume,
\* and a body is called or dropped.
MembersSound == Membership /\ WaitersSound /\ BodyOnce

\* Slots are counted exactly, those of worker tasks and those lent included,
\* and the limit holds.
SlotsSound == LentExactly /\ LenderParked /\ LimitHeld /\ ForksCounted

\* What ends the scope asks every live child to stop, and a child that was
\* asked is queued to hear of it.
CancellationReaches == FamilyAsked /\ RequestObserved

\* A closed scope leaves nothing behind: no child, slot, waiter, worker task or
\* body.
NothingLeft == ClosedSettled /\ BodyOnce

\* What was asked to stop never starts, and what settled never changes.
OneWay == NeverStartsAsked /\ SettledForever

\* Leaving the block ends: the scope drains and closes.
CloseCompletes == settling ~> closed

\* Every spawn and work of the block, its awaits of a child or a worker task
\* and its own waits return or raise.
BlockReturns == block.op \notin {"none", "drain"} ~> block.at = "run"

\* A lender gets a slot back or unwinds: nested submissions cannot deadlock
\* the bound.
LenderResumes == \A t \in Tasks : act[t].at = "lend" ~> act[t].at # "lend"

\* A child that was asked to stop settles.
RequestSettles == \A t \in Tasks : t \in requested ~> Ended(t)
=============================================================================
