----------------------------- MODULE PortChannel -----------------------------
(***************************************************************************)
(* One browser channel (runtime/wasm/channel.mjs): a sender and a receiver *)
(* over the two ends of a MessagePort.  The sender spends a credit (a slot *)
(* and the payload's bytes) for each value it posts; the receiver gives it *)
(* back when the value is consumed.  Either end may be moved to another    *)
(* guest: moving takes a snapshot and the listener off, posting the        *)
(* snapshot to a worker takes the port along, adopting it listens again.   *)
(* A port keeps what it is sent in order; a started port with no listener  *)
(* loses what it is sent.                                                  *)
(***************************************************************************)
EXTENDS Naturals, Sequences, SequencesExt

CONSTANTS
    Messages,       \* the channel's limit of unconsumed values
    Bytes,          \* and of their bytes
    Sizes,          \* payload sizes
    MaxSends,       \* bound: values sent
    MaxGeneration,  \* Number.MAX_SAFE_INTEGER, the last generation of an endpoint
    Loiters,        \* may a moved endpoint wait on the page for its lane to boot
    Supervised      \* may the channel host report the peer's owner dead

ASSUME PortAssumption ==
    /\ Messages \in Nat \ {0} /\ Bytes \in Nat \ {0} /\ MaxGeneration \in Nat \ {0}
    /\ Sizes \subseteq 0..Bytes /\ MaxSends \in Nat
    /\ Loiters \in BOOLEAN /\ Supervised \in BOOLEAN

VARIABLES
    at,             \* "held" by a wrapper, "loose" snapshot, "shipped" or "over", per end
    closed,         \* the wrapper's closed flag, per end
    slots, room,    \* the sender's credits
    queue, retained,\* the receiver's queue and the bytes it counts there
    wires,          \* what the port of each end has yet to deliver
    waiting,        \* bytes a subscriber waits for, or NoWait, per end
    generation, claimed, snapshots, \* the identity of each end, the generations handed out
    owners,         \* how many wrappers of an end are live
    remote,         \* the remote-close that each end's control port may bring
    sent, got       \* every accepted value, every consumed value

state == <<closed, slots, room, queue, retained>>
identity == <<generation, claimed, snapshots, owners, remote>>
vars == <<at, state, wires, waiting, identity, sent, got>>

Ends == {"sender", "receiver"}
Peer(e) == IF e = "sender" THEN "receiver" ELSE "sender"
NoWait == Bytes + 1
Value(n, size) == [kind |-> "value", n |-> n, bytes |-> size]
Credit(size) == [kind |-> "credit", n |-> 0, bytes |-> size]
Stop == [kind |-> "stop", n |-> 0, bytes |-> 0]
End == [kind |-> "end", n |-> 0, bytes |-> 0]

\* A port that was closed takes no more messages.
Posted(e, m) == IF at[e] = "over" THEN wires ELSE [wires EXCEPT ![e] = Append(@, m)]

Available(e, size) ==
    \/ at[e] # "held" \/ closed[e]
    \/ e = "sender" /\ slots > 0 /\ room >= size
    \/ e = "receiver" /\ queue # <<>>

Init ==
    /\ at = [e \in Ends |-> "held"] /\ closed = [e \in Ends |-> FALSE]
    /\ slots = Messages /\ room = Bytes
    /\ queue = <<>> /\ retained = 0
    /\ wires = [e \in Ends |-> <<>>]
    /\ waiting = [e \in Ends |-> NoWait]
    /\ generation = [e \in Ends |-> 1] /\ claimed = [e \in Ends |-> TRUE]
    /\ snapshots = [e \in Ends |-> {}] /\ owners = [e \in Ends |-> 1]
    /\ remote = [e \in Ends |-> "none"]
    /\ sent = <<>> /\ got = <<>>

\* wake: every subscriber of the end is called and forgotten.
Wake(e) == waiting' = [waiting EXCEPT ![e] = NoWait]

\* Mutant: an end closes without a word.
ToldNobody(e) == wires
Told(e) == Posted(Peer(e), IF e = "sender" THEN End ELSE Stop)

\* close: the queue goes, the peer is told, the port takes and delivers no more.
CloseEnd(e) ==
    /\ at' = [at EXCEPT ![e] = "over"]
    /\ closed' = [closed EXCEPT ![e] = TRUE]
    /\ IF e = "receiver" THEN queue' = <<>> /\ retained' = 0 ELSE UNCHANGED <<queue, retained>>
    /\ wires' = [Told(e) EXCEPT ![e] = <<>>]
    /\ owners' = [owners EXCEPT ![e] = @ - 1]
    /\ Wake(e)
    /\ UNCHANGED <<slots, room, generation, claimed, snapshots, remote, sent, got>>

Close(e) == at[e] = "held" /\ CloseEnd(e)

\* Mutant: a value costs no slot.
SpentNothing == slots
Spent == slots - 1

TrySend(size) ==
    /\ at["sender"] = "held" /\ ~closed["sender"]
    /\ slots > 0 /\ room >= size /\ Len(sent) < MaxSends
    /\ slots' = Spent /\ room' = room - size
    /\ sent' = Append(sent, Value(Len(sent) + 1, size))
    /\ wires' = Posted("receiver", Value(Len(sent) + 1, size))
    /\ UNCHANGED <<at, closed, queue, retained, waiting, identity, got>>

\* Mutant: the credit returns the slot and not the bytes.
ReturnedSlot(v) == Credit(0)
Returned(v) == Credit(v.bytes)

\* Mutant: the consumed value still counts as retained.
StillRetained(v) == retained
Released(v) == retained - v.bytes

TryReceive ==
    /\ at["receiver"] = "held" /\ queue # <<>>
    /\ queue' = Tail(queue) /\ retained' = Released(Head(queue))
    /\ got' = Append(got, Head(queue))
    /\ wires' = IF closed["receiver"] THEN wires ELSE Posted("sender", Returned(Head(queue)))
    /\ UNCHANGED <<at, closed, slots, room, waiting, identity, sent>>

\* Mutant: readiness is not looked at again.
MustWaitBlindly(e, size) == TRUE
MustWait(e, size) == ~Available(e, size)

\* subscribe: the caller tried first; readiness is looked at again before waiting.
Subscribe(e, size) ==
    /\ at[e] = "held" /\ waiting[e] = NoWait
    /\ MustWait(e, size)
    /\ waiting' = [waiting EXCEPT ![e] = size]
    /\ UNCHANGED <<at, state, wires, identity, sent, got>>

\* arrived at the sender: the receiver stopped, or returns one value's credit.
CreditFits(p) == slots + 1 <= Messages /\ room + p.bytes <= Bytes
SenderArrives ==
    /\ at["sender"] = "held" /\ wires["sender"] # <<>>
    /\ LET p == Head(wires["sender"])
           taken == [wires EXCEPT !["sender"] = Tail(@)] IN
       IF p.kind = "credit" /\ ~closed["sender"] /\ ~CreditFits(p) THEN CloseEnd("sender")
       ELSE /\ wires' = taken
            /\ closed' = [closed EXCEPT !["sender"] = @ \/ p.kind = "stop"]
            /\ IF closed["sender"] \/ p.kind = "stop" THEN UNCHANGED <<slots, room>>
               ELSE slots' = slots + 1 /\ room' = room + p.bytes
            /\ IF p.kind = "credit" /\ closed["sender"] THEN UNCHANGED waiting ELSE Wake("sender")
            /\ UNCHANGED <<at, queue, retained, identity, sent, got>>

\* arrived at the receiver: the sender ended, or one value, which must fit.
ValueFits(p) == Len(queue) < Messages /\ retained + p.bytes <= Bytes

\* Mutant: the newest value goes to the front.
QueuedFirst(p) == <<p>> \o queue
Queued(p) == Append(queue, p)

ReceiverArrives ==
    /\ at["receiver"] = "held" /\ wires["receiver"] # <<>>
    /\ LET p == Head(wires["receiver"]) IN
       IF p.kind = "value" /\ (closed["receiver"] \/ ~ValueFits(p)) THEN CloseEnd("receiver")
       ELSE /\ wires' = [wires EXCEPT !["receiver"] = Tail(@)]
            /\ IF p.kind = "end"
               THEN closed' = [closed EXCEPT !["receiver"] = TRUE] /\ UNCHANGED <<queue, retained>>
               ELSE /\ queue' = Queued(p) /\ retained' = retained + p.bytes
                    /\ UNCHANGED closed
            /\ Wake("receiver")
            /\ UNCHANGED <<at, slots, room, identity, sent, got>>

\* revoke, of an end whose supervisor has not heard that it closed: its peer
\* is sent a remote-close, once.
Revoked(e) == [remote EXCEPT ![Peer(e)] = "posted"]

\* The guest that holds an end is terminated: its port goes without a word, and
\* the page revokes it.
Perish(e) ==
    /\ Supervised /\ at[e] \in {"held", "shipped"} /\ at[Peer(e)] # "over"
    /\ at' = [at EXCEPT ![e] = "over"] /\ closed' = [closed EXCEPT ![e] = TRUE]
    /\ wires' = [wires EXCEPT ![e] = <<>>]
    /\ claimed' = [claimed EXCEPT ![e] = TRUE] /\ owners' = [owners EXCEPT ![e] = 0]
    /\ remote' = Revoked(e)
    /\ Wake(e)
    /\ UNCHANGED <<slots, room, queue, retained, generation, snapshots, sent, got>>

\* The page may also revoke an end that has closed, before it hears of that.
Revoke(e) ==
    /\ Supervised /\ at[e] = "over" /\ remote[Peer(e)] = "none"
    /\ remote' = Revoked(e)
    /\ UNCHANGED <<at, state, wires, waiting, generation, claimed, snapshots, owners, sent, got>>

\* remoteClose: the control port of a live end brings the report.
\* Mutant: only a sender hears it.
MayHearAsSender(e) == e = "sender" /\ at[e] = "held"
MayHear(e) == at[e] = "held"
RemoteClose(e) ==
    /\ remote[e] = "posted" /\ MayHear(e)
    /\ remote' = [remote EXCEPT ![e] = "heard"]
    /\ closed' = [closed EXCEPT ![e] = TRUE]
    /\ Wake(e)
    /\ UNCHANGED <<at, slots, room, queue, retained, wires, generation, claimed, snapshots, owners, sent, got>>

Move(e) ==
    /\ at[e] = "held" /\ waiting[e] = NoWait
    /\ IF generation[e] = MaxGeneration THEN CloseEnd(e)
       ELSE /\ at' = [at EXCEPT ![e] = "loose"]
            /\ generation' = [generation EXCEPT ![e] = @ + 1]
            /\ claimed' = [claimed EXCEPT ![e] = FALSE]
            /\ snapshots' = [snapshots EXCEPT ![e] = @ \union {generation[e] + 1}]
            /\ owners' = [owners EXCEPT ![e] = @ - 1]
            /\ UNCHANGED <<state, wires, waiting, remote, sent, got>>

\* postMessage transfers the port: what it has not delivered goes with it.
Ship(e) ==
    /\ at[e] = "loose" /\ at' = [at EXCEPT ![e] = "shipped"]
    /\ UNCHANGED <<state, wires, waiting, identity, sent, got>>

\* Until then both ports are started and nobody listens.
Lose(e) ==
    /\ Loiters /\ at[e] = "loose" /\ wires[e] # <<>>
    /\ wires' = [wires EXCEPT ![e] = Tail(@)]
    /\ UNCHANGED <<at, state, waiting, identity, sent, got>>
LoseReport(e) ==
    /\ Loiters /\ at[e] = "loose" /\ remote[e] = "posted"
    /\ remote' = [remote EXCEPT ![e] = "heard"]
    /\ UNCHANGED <<at, state, wires, waiting, generation, claimed, snapshots, owners, sent, got>>

\* A snapshot is good for the generation it was taken at, and once.
\* Mutant: a snapshot of an endpoint that is held again is still good.
MayAdoptAgain(e, g) == at[e] # "over"
MayAdopt(e, g) == g = generation[e] /\ ~claimed[e]
AdoptPortEndpoint(e, g) ==
    /\ g \in snapshots[e] /\ MayAdopt(e, g)
    /\ at' = [at EXCEPT ![e] = "held"]
    /\ claimed' = [claimed EXCEPT ![e] = TRUE]
    /\ owners' = [owners EXCEPT ![e] = @ + 1]
    /\ UNCHANGED <<state, wires, waiting, generation, snapshots, remote, sent, got>>

Next ==
    \/ \E size \in Sizes : TrySend(size)
    \/ TryReceive \/ SenderArrives \/ ReceiverArrives
    \/ \E e \in Ends :
          \/ Close(e) \/ Perish(e) \/ Revoke(e) \/ RemoteClose(e) \/ Move(e) \/ Ship(e) \/ Lose(e) \/ LoseReport(e)
          \/ \E size \in IF e = "sender" THEN Sizes ELSE {0} : Subscribe(e, size)
          \/ \E g \in 1..MaxGeneration : AdoptPortEndpoint(e, g)

\* Ports and control ports deliver, and a snapshot on its way to a guest is posted and adopted.
Fairness ==
    /\ WF_vars(SenderArrives) /\ WF_vars(ReceiverArrives)
    /\ \A e \in Ends :
          /\ WF_vars(Ship(e)) /\ WF_vars(RemoteClose(e))
          /\ WF_vars(\E g \in 1..MaxGeneration : AdoptPortEndpoint(e, g))

Spec == Init /\ [][Next]_vars
FairSpec == Spec /\ Fairness

-----------------------------------------------------------------------------
\* The bytes of the messages of s, and those of one kind.
Sized(s) ==
    LET f[i \in 0..Len(s)] == IF i = 0 THEN 0 ELSE f[i - 1] + s[i].bytes
    IN f[Len(s)]
OfKind(s, k) ==
    LET f[i \in 0..Len(s)] ==
            IF i = 0 THEN <<>> ELSE IF s[i].kind = k THEN Append(f[i - 1], s[i]) ELSE f[i - 1]
    IN f[Len(s)]
Values(s) == OfKind(s, "value")
Credits(s) == OfKind(s, "credit")

TypeOK ==
    /\ at \in [Ends -> {"held", "loose", "shipped", "over"}]
    /\ closed \in [Ends -> BOOLEAN] /\ claimed \in [Ends -> BOOLEAN]
    /\ slots \in 0..Messages /\ room \in 0..Bytes
    /\ retained \in 0..Bytes /\ retained = Sized(queue)
    /\ waiting \in [Ends -> 0..NoWait]
    /\ generation \in [Ends -> 1..MaxGeneration]
    /\ remote \in [Ends -> {"none", "posted", "heard"}]

\* Between two honest ends no arrival ever breaks the protocol, so no end
\* closes itself over one: a credit never exceeds the limits it was taken from
\* and an accepted value always has room, across moves, losses and closures.
NoOverrun ==
    /\ at["sender"] = "held" /\ ~closed["sender"] /\ wires["sender"] # <<>>
          => Head(wires["sender"]).kind = "stop" \/ CreditFits(Head(wires["sender"]))
    /\ at["receiver"] = "held" /\ wires["receiver"] # <<>> /\ Head(wires["receiver"]).kind = "value"
          => ValueFits(Head(wires["receiver"]))

\* A value that was accepted finds its receiver taking values: closing the
\* sender lets the receiver drain accepted messages before it reports closure.
DrainedFirst ==
    at["receiver"] = "held" /\ wires["receiver"] # <<>> /\ Head(wires["receiver"]).kind = "value"
        => ~closed["receiver"]

\* An end has one live wrapper at most, whichever snapshots of it are still in
\* someone's hands, and none once it is over.
OneOwner == \A e \in Ends : owners[e] = IF at[e] = "held" THEN 1 ELSE 0

\* Nobody sleeps on an end that is ready: a subscriber is called by the arrival,
\* the closure or the report that makes its wait pointless.
WaitersSound == \A e \in Ends : waiting[e] # NoWait => ~Available(e, waiting[e])

\* What was accepted and is not consumed is queued or on its way, in order,
\* until the receiver itself closes.
NothingLost ==
    at["receiver"] # "over" => sent = got \o queue \o Values(wires["receiver"])

\* While both ends are open a credit is in exactly one place: with the sender,
\* with a value on its way or queued, or on its way back.
CreditsExact ==
    ~closed["sender"] /\ ~closed["receiver"] =>
        LET out == Values(wires["receiver"]) IN
        /\ slots + Len(out) + Len(queue) + Len(Credits(wires["sender"])) = Messages
        /\ room + Sized(out) + Sized(queue) + Sized(Credits(wires["sender"])) = Bytes

\* Nothing is stranded when an end is moved, closed or lost: no value that was
\* accepted and no credit that was spent.
NothingStranded == NothingLost /\ CreditsExact

\* That an end is gone reaches the other wherever it has been moved, so whoever
\* waits there is told: by the end itself where it closed, as the page need not
\* say anything then, and by the page where its guest was terminated.
EndReaches == \A e \in Ends : at[e] = "over" ~> closed[Peer(e)]
=============================================================================
