---------------------------- MODULE BoundedQueue ----------------------------
(***************************************************************************)
(* The bounded FIFO of native/crates/host/src/channels.rs: one mutex, a    *)
(* count limit, a byte limit and two condition variables.  The worker      *)
(* threads of workers.rs and the lane mailboxes of worker_adapter.rs are   *)
(* built on it.                                                            *)
(*                                                                         *)
(* Every method body holds the mutex from its first access to its return,  *)
(* except inside Condvar::wait, which releases it.  A body between two     *)
(* waits is therefore one atomic step.  A thread that waits is a member of *)
(* `arrived` or `space`; a notification removes it, and only then may it   *)
(* take the lock again.                                                    *)
(***************************************************************************)
EXTENDS Integers, Sequences, SequencesExt, FiniteSets

CONSTANTS
    Producers,      \* threads that call try_push and push_wait
    Consumers,      \* threads that call pop
    Messages,       \* the values that may be pushed, each at most once
    Bytes,          \* Bytes[m]: what `measure` answers for m
    MessageLimit,   \* message_limit
    ByteLimit       \* byte_limit

ASSUME LimitsAssumption == MessageLimit \in Nat \ {0} /\ ByteLimit \in Nat \ {0}
ASSUME BytesAssumption == Bytes \in [Messages -> Nat]
ASSUME ThreadsAssumption == Producers \cap Consumers = {} /\ IsFiniteSet(Consumers)

VARIABLES
    entries,        \* QueueState.entries
    bytes,          \* QueueState.bytes
    closed,         \* QueueState.closed
    arrived,        \* consumers asleep in arrived.wait or arrived.wait_timeout
    space,          \* producers asleep in space.wait
    call,           \* call[t]: what thread t is doing
    accepted,       \* history: every message push_back took, in order
    delivered,      \* history: every message pop_front returned, in order
    fate            \* history: who owns each message now

queueVars == <<entries, bytes, closed>>
vars == <<entries, bytes, closed, arrived, space, call, accepted, delivered, fate>>

Threads == Producers \union Consumers

Idle == [op |-> "idle"]
Calls == {Idle}
         \union [op : {"push_wait"}, value : Messages]
         \union [op : {"pop"}, timed : BOOLEAN, expired : BOOLEAN]

Fates == {"caller", "waiting", "queue", "consumer", "refused", "dropped"}

Init ==
    /\ entries = <<>>
    /\ bytes = 0
    /\ closed = FALSE
    /\ arrived = {}
    /\ space = {}
    /\ call = [t \in Threads |-> Idle]
    /\ accepted = <<>>
    /\ delivered = <<>>
    /\ fate = [m \in Messages |-> "caller"]

-----------------------------------------------------------------------------
(* Condition variables *)

\* notify_one wakes some sleeper, or nobody when none sleeps.
NotifyOne(waiters, waiters2) ==
    IF waiters = {} THEN waiters2 = {} ELSE \E t \in waiters : waiters2 = waiters \ {t}

\* A thread inside a wait holds no lock and runs nothing until it is woken.
Asleep(t) == t \in arrived \union space

-----------------------------------------------------------------------------
(* Pushing *)

\* Mutant: the count limit is off by one.
FitsOneMore(m) == Len(entries) <= MessageLimit /\ bytes + Bytes[m] <= ByteLimit

\* The room test of try_push_locked and push_wait.
Fits(m) == Len(entries) < MessageLimit /\ bytes + Bytes[m] <= ByteLimit

\* Mutant: acceptance wakes nobody.
AcceptSilently(m) ==
    /\ bytes' = bytes + Bytes[m]
    /\ entries' = Append(entries, m)
    /\ accepted' = Append(accepted, m)
    /\ fate' = [fate EXCEPT ![m] = "queue"]
    /\ UNCHANGED <<arrived, closed, space, delivered>>

\* Mutant: acceptance takes the measure off instead of adding it.
AcceptSubtracting(m) ==
    /\ bytes' = bytes - Bytes[m]
    /\ entries' = Append(entries, m)
    /\ accepted' = Append(accepted, m)
    /\ fate' = [fate EXCEPT ![m] = "queue"]
    /\ NotifyOne(arrived, arrived')
    /\ UNCHANGED <<closed, space, delivered>>

\* The accepting tail that both pushes share: count, append, notify_one.
Accept(m) ==
    /\ bytes' = bytes + Bytes[m]
    /\ entries' = Append(entries, m)
    /\ accepted' = Append(accepted, m)
    /\ fate' = [fate EXCEPT ![m] = "queue"]
    /\ NotifyOne(arrived, arrived')
    /\ UNCHANGED <<closed, space, delivered>>

\* The error return: the caller has its value back and nothing else changed.
Refuse(m) ==
    /\ fate' = [fate EXCEPT ![m] = "refused"]
    /\ UNCHANGED <<entries, bytes, closed, arrived, space, accepted, delivered>>

\* BoundedQueue::try_push
TryPush(p, m) ==
    /\ call[p] = Idle
    /\ fate[m] = "caller"
    /\ IF ~closed /\ Fits(m) THEN Accept(m) ELSE Refuse(m)
    /\ UNCHANGED call

\* BoundedQueue::push_wait up to its first sleep or its return.  A value no
\* empty queue could hold is refused before the lock.
PushWait(p, m) ==
    /\ call[p] = Idle
    /\ fate[m] = "caller"
    /\ \/ /\ Bytes[m] > ByteLimit \/ closed
          /\ Refuse(m)
          /\ UNCHANGED call
       \/ /\ Bytes[m] <= ByteLimit /\ ~closed /\ Fits(m)
          /\ Accept(m)
          /\ UNCHANGED call
       \/ /\ Bytes[m] <= ByteLimit /\ ~closed /\ ~Fits(m)
          /\ space' = space \union {p}
          /\ call' = [call EXCEPT ![p] = [op |-> "push_wait", value |-> m]]
          /\ fate' = [fate EXCEPT ![m] = "waiting"]
          /\ UNCHANGED <<queueVars, arrived, accepted, delivered>>

\* Mutant: a refused push_wait hands its value back and appends it as well.
PushWokenTwice(p) ==
    /\ call[p].op = "push_wait"
    /\ ~Asleep(p)
    /\ IF closed THEN /\ entries' = Append(entries, call[p].value)
                      /\ bytes' = bytes + Bytes[call[p].value]
                      /\ fate' = [fate EXCEPT ![call[p].value] = "refused"]
                      /\ UNCHANGED <<closed, arrived, space, accepted, delivered>>
                 ELSE Fits(call[p].value) /\ Accept(call[p].value)
    /\ call' = [call EXCEPT ![p] = Idle]

\* push_wait after a wakeup: the loop test again, then sleep, refuse or accept.
PushWoken(p) ==
    /\ call[p].op = "push_wait"
    /\ ~Asleep(p)
    /\ LET m == call[p].value IN
       \/ /\ closed
          /\ Refuse(m)
          /\ call' = [call EXCEPT ![p] = Idle]
       \/ /\ ~closed /\ Fits(m)
          /\ Accept(m)
          /\ call' = [call EXCEPT ![p] = Idle]
       \/ /\ ~closed /\ ~Fits(m)
          /\ space' = space \union {p}
          /\ UNCHANGED <<queueVars, arrived, call, accepted, delivered, fate>>

-----------------------------------------------------------------------------
(* Popping *)

\* Mutant: the newest entry is dropped from the queue, the oldest returned.
DeliverNewest(m) ==
    /\ entries' = Front(entries)
    /\ bytes' = IF bytes >= Bytes[m] THEN bytes - Bytes[m] ELSE 0
    /\ delivered' = Append(delivered, m)
    /\ fate' = [fate EXCEPT ![m] = "consumer"]
    /\ NotifyOne(space, space')
    /\ UNCHANGED <<closed, arrived, accepted>>

\* Mutant: room is made and no producer is told.
DeliverSilently(m) ==
    /\ entries' = Tail(entries)
    /\ bytes' = IF bytes >= Bytes[m] THEN bytes - Bytes[m] ELSE 0
    /\ delivered' = Append(delivered, m)
    /\ fate' = [fate EXCEPT ![m] = "consumer"]
    /\ UNCHANGED <<closed, arrived, space, accepted>>

\* The tail of pop that returns a value: pop_front, saturating_sub,
\* space.notify_one.
Deliver(m) ==
    /\ entries' = Tail(entries)
    /\ bytes' = IF bytes >= Bytes[m] THEN bytes - Bytes[m] ELSE 0
    /\ delivered' = Append(delivered, m)
    /\ fate' = [fate EXCEPT ![m] = "consumer"]
    /\ NotifyOne(space, space')
    /\ UNCHANGED <<closed, arrived, accepted>>

\* The tail of pop: a value, or None and nothing changed.
Take ==
    IF entries = <<>>
    THEN UNCHANGED <<queueVars, arrived, space, accepted, delivered, fate>>
    ELSE Deliver(Head(entries))

\* pop(Some(Duration::ZERO)): no wait at all.
PopNow(c) ==
    /\ call[c] = Idle
    /\ Take
    /\ UNCHANGED call

\* pop(None), and pop(Some(timeout)) when `timed`, up to the first sleep.
PopWait(c, timed) ==
    /\ call[c] = Idle
    /\ IF entries = <<>> /\ ~closed
       THEN /\ arrived' = arrived \union {c}
            /\ call' = [call EXCEPT ![c] = [op |-> "pop", timed |-> timed, expired |-> FALSE]]
            /\ UNCHANGED <<queueVars, space, accepted, delivered, fate>>
       ELSE Take /\ UNCHANGED call

\* wait_timeout reports timed_out: the thread leaves the wait set by itself.
\* It still has to take the lock before it can go on.
PopTimeout(c) ==
    /\ c \in arrived
    /\ call[c].op = "pop" /\ call[c].timed
    /\ arrived' = arrived \ {c}
    /\ call' = [call EXCEPT ![c].expired = TRUE]
    /\ UNCHANGED <<queueVars, space, accepted, delivered, fate>>

\* pop after a wakeup: sleep again unless something arrived, the queue closed
\* or the time ran out; a popper whose time ran out still takes what is there.
PopWoken(c) ==
    /\ call[c].op = "pop"
    /\ ~Asleep(c)
    /\ IF entries = <<>> /\ ~closed /\ ~call[c].expired
       THEN /\ \/ arrived' = arrived \union {c} /\ UNCHANGED call
               \/ /\ call[c].timed          \* deadline.checked_duration_since is None
                  /\ UNCHANGED arrived
                  /\ call' = [call EXCEPT ![c] = Idle]
            /\ UNCHANGED <<queueVars, space, accepted, delivered, fate>>
       ELSE Take /\ call' = [call EXCEPT ![c] = Idle]

\* A condition variable may also wake a sleeper for no reason.
SpuriousWake(t) ==
    /\ Asleep(t)
    /\ arrived' = arrived \ {t}
    /\ space' = space \ {t}
    /\ UNCHANGED <<queueVars, call, accepted, delivered, fate>>

-----------------------------------------------------------------------------
(* Closing; any thread that shares the queue may do it *)

\* Mutant: closing wakes the producers only.
CloseWakesProducers ==
    /\ closed' = TRUE
    /\ space' = {}
    /\ UNCHANGED <<entries, bytes, arrived, call, accepted, delivered, fate>>

\* BoundedQueue::close: refuse what comes, keep what was accepted, wake all.
Close ==
    /\ closed' = TRUE
    /\ arrived' = {}
    /\ space' = {}
    /\ UNCHANGED <<entries, bytes, call, accepted, delivered, fate>>

\* Mutant: the entries go, their measure stays.
DiscardKeepsBytes ==
    /\ closed' = TRUE
    /\ entries' = <<>>
    /\ arrived' = {}
    /\ space' = {}
    /\ fate' = [m \in Messages |-> IF fate[m] = "queue" THEN "dropped" ELSE fate[m]]
    /\ UNCHANGED <<bytes, call, accepted, delivered>>

\* BoundedQueue::close_and_discard: the same, and drop what was accepted.
CloseAndDiscard ==
    /\ closed' = TRUE
    /\ entries' = <<>>
    /\ bytes' = 0
    /\ arrived' = {}
    /\ space' = {}
    /\ fate' = [m \in Messages |-> IF fate[m] = "queue" THEN "dropped" ELSE fate[m]]
    /\ UNCHANGED <<call, accepted, delivered>>

-----------------------------------------------------------------------------
Produce(p) == \/ \E m \in Messages : TryPush(p, m) \/ PushWait(p, m)
              \/ PushWoken(p)

Consume(c) == \/ PopNow(c)
              \/ \E timed \in BOOLEAN : PopWait(c, timed)
              \/ PopTimeout(c)
              \/ PopWoken(c)

Next ==
    \/ \E p \in Producers : Produce(p)
    \/ \E c \in Consumers : Consume(c)
    \/ \E t \in Threads : SpuriousWake(t)
    \/ Close
    \/ CloseAndDiscard

Spec == Init /\ [][Next]_vars

\* A thread that is awake inside a call gets the mutex some day, and the
\* consumers keep popping: workers.rs polls the output queue until it is empty
\* and joins only while draining it.  Nobody is obliged to push or to close.
Fairness ==
    /\ \A p \in Producers : WF_vars(PushWoken(p))
    /\ \A c \in Consumers : WF_vars(PopWoken(c)) /\ WF_vars(PopNow(c) \/ PopWait(c, FALSE))

FairSpec == Spec /\ Fairness

-----------------------------------------------------------------------------
(* Properties *)

TypeOK ==
    /\ entries \in Seq(Messages)
    /\ bytes \in Nat
    /\ closed \in BOOLEAN
    /\ arrived \in SUBSET Consumers
    /\ space \in SUBSET Producers
    /\ call \in [Threads -> Calls]
    /\ accepted \in Seq(Messages)
    /\ delivered \in Seq(Messages)
    /\ fate \in [Messages -> Fates]

\* bytes is exactly what the held entries measure, and neither limit is ever
\* exceeded, whatever order pushes, pops, timeouts and closes came in.
Held(s) == LET total[i \in 0..Len(s)] == IF i = 0 THEN 0 ELSE total[i - 1] + Bytes[s[i]] IN total[Len(s)]
BytesHeld == Held(entries)
ByteAccounting ==
    /\ bytes = BytesHeld
    /\ bytes <= ByteLimit
    /\ Len(entries) <= MessageLimit

\* What was delivered followed by what is held is what was accepted, in that
\* order: a pop never skips, repeats or reorders.  Only close_and_discard cuts
\* the tail off, and then nothing is delivered any more.
Cut == Len(delivered) + Len(entries) # Len(accepted)
FifoPrefix ==
    /\ Len(delivered) + Len(entries) <= Len(accepted)
    /\ \A i \in 1..Len(delivered) : delivered[i] = accepted[i]
    /\ \A i \in 1..Len(entries) : entries[i] = accepted[Len(delivered) + i]
    /\ Cut => closed /\ entries = <<>>

\* "A send transfers ownership only on acceptance": a message has one owner.
\* It is held by the queue exactly when it was accepted and neither delivered
\* nor discarded, and a blocked push_wait still owns the value it offers.
OneOwner ==
    /\ \A m \in Messages :
        /\ fate[m] = "queue" <=> \E i \in 1..Len(entries) : entries[i] = m
        /\ fate[m] = "consumer" <=> \E i \in 1..Len(delivered) : delivered[i] = m
        /\ fate[m] = "waiting" <=> \E p \in Producers :
                                      call[p] = [op |-> "push_wait", value |-> m]
    /\ \A i, j \in 1..Len(accepted) : accepted[i] = accepted[j] => i = j
    /\ \A p, q \in Producers :
        p # q /\ call[p].op = "push_wait" /\ call[q].op = "push_wait"
            => call[p].value # call[q].value

\* All of it together: the measure is that of what is held, within its limits,
\* nothing is skipped, repeated or reordered, and a message has one owner.
QueueSound == TypeOK /\ ByteAccounting /\ FifoPrefix /\ OneOwner

\* Consumers inside pop that were woken and have not run yet.
WokenPoppers == {c \in Consumers : call[c].op = "pop" /\ c \notin arrived}

\* No lost wakeup on `arrived`: while consumers sleep, every held entry has a
\* woken consumer of its own coming for it, although a push notifies only one.
NoLostArrival == arrived # {} => Len(entries) <= Cardinality(WokenPoppers)

\* No lost wakeup on `space`: producers never all sleep in front of an empty
\* queue, although a pop notifies one producer whose value may not fit.
NoLostSpace ==
    space # {} /\ entries = <<>> =>
        \E p \in Producers : call[p].op = "push_wait" /\ p \notin space

\* "Both wake every blocked side": after either close no thread sleeps, and
\* none goes back to sleep.
ClosedWakesAll == closed => arrived = {} /\ space = {}

\* While threads sleep on either condition a woken one comes for what they
\* wait for, and after a close none sleeps.
NoLostWakeup == NoLostArrival /\ NoLostSpace /\ ClosedWakesAll

\* Every blocked push_wait returns, accepted or refused, while consumers pop.
PushReturns == \A p \in Producers : call[p].op = "push_wait" ~> call[p] = Idle

\* After a close every blocked pop returns.
PopReturnsAfterClose ==
    \A c \in Consumers : closed /\ call[c].op = "pop" ~> call[c] = Idle

-----------------------------------------------------------------------------
(* The promise the queue keeps to those who share it: see Channel.tla.  The
   stream is cut as soon as a discard has dropped an accepted message. *)

Promise == INSTANCE Channel WITH
    Payloads <- Messages,
    Capacity <- MessageLimit,
    sent <- accepted,
    received <- delivered,
    open <- ~closed,
    cut <- Cut

\* BoundedQueue implements a bounded FIFO channel.
ImplementsChannel == Promise!Spec
=============================================================================
