----------------------------- MODULE HostStreams -----------------------------
(***************************************************************************)
(* Messages the page pushes to an application, and the application's       *)
(* uploads to the page (runtime/wasm/host-channel.mjs).  A push is queued, *)
(* the oldest dropped past the bound; the frame that delivers first keeps  *)
(* of each kind what its route's policy keeps, and reports how many were   *)
(* dropped.  An upload arrives in pieces and is charged in full against    *)
(* the reassembly limit until a request takes it or it is aborted.         *)
(***************************************************************************)
EXTENDS Naturals, Sequences, FiniteSets, SequencesExt, FiniteSetsExt

CONSTANTS
    Kinds,          \* kinds of message
    Keeps,          \* what a route may keep: 0 is no route, 1 is latest
    Bound,          \* MAX_INBOUND_MESSAGES
    MaxPushes,      \* bound: messages pushed
    Transfers,      \* uploads the application may make
    Total,          \* the bytes of each upload
    Limit           \* the reassembly limit

VARIABLES
    routes,         \* how many messages of each kind a frame keeps
    inbound,        \* messages queued: kind, number in push order, was it routed then
    dropped,        \* drops not reported yet, per kind
    pushes,         \* messages pushed
    got,            \* messages delivered
    counted,        \* drops reported, per kind
    unrouted,       \* messages dropped for want of a route
    frame,          \* "none", "begun", "waiting" or "woken"
    notify, scheduled, \* a notify is registered; a wake is scheduled
    uploads,        \* bytes received of each upload, or Absent
    reassembled,    \* bytes charged to uploads
    closed

streams == <<routes, inbound, dropped, pushes, got, counted, unrouted, frame, notify, scheduled, closed>>
vars == <<streams, uploads, reassembled>>

Absent == Limit + 1
Routed == {k \in Kinds : routes[k] > 0}
Numbers(k, s) == {s[i].n : i \in {j \in DOMAIN s : s[j].kind = k}}

Init ==
    /\ routes = [k \in Kinds |-> 0] /\ inbound = <<>>
    /\ dropped = [k \in Kinds |-> 0] /\ counted = dropped
    /\ pushes = <<>> /\ got = <<>> /\ unrouted = {}
    /\ frame = "none" /\ notify = FALSE /\ scheduled = FALSE
    /\ uploads = [t \in Transfers |-> Absent] /\ reassembled = 0 /\ closed = FALSE

\* hostFrameReady, without answers.
Ready == inbound # <<>> \/ \E k \in Kinds : dropped[k] > 0

-----------------------------------------------------------------------------
\* pushMessage: the oldest of any kind is dropped and counted past the bound, and
\* a frame that waits is woken once this turn's pushes are queued.
\* Mutant: what overflows is not counted.
OverflowUncounted(s) == dropped
Overflow(s) == IF Len(s) > Bound THEN [dropped EXCEPT ![s[1].kind] = @ + 1] ELSE dropped
\* Mutant: nothing is dropped.
Unbounded(s) == s
Bounded(s) == IF Len(s) > Bound THEN Tail(s) ELSE s
\* Mutant: only the first message of an empty queue schedules a wake.
SchedulesFirst == scheduled \/ (notify /\ pushes = <<>>)
Schedules == scheduled \/ notify
PushMessage(k) ==
    /\ ~closed /\ Len(pushes) < MaxPushes
    /\ LET m == [kind |-> k, n |-> Len(pushes) + 1, routed |-> routes[k] > 0]
           s == Append(inbound, m) IN
       /\ pushes' = Append(pushes, m)
       /\ inbound' = Bounded(s)
       /\ dropped' = Overflow(s)
    /\ scheduled' = Schedules
    /\ UNCHANGED <<routes, got, counted, unrouted, frame, notify, closed, uploads, reassembled>>

\* The scheduled microtask calls whoever is registered by then.
ScheduledWake ==
    /\ scheduled /\ scheduled' = FALSE
    /\ notify' = FALSE /\ frame' = IF notify /\ frame = "waiting" THEN "woken" ELSE frame
    /\ UNCHANGED <<routes, inbound, dropped, pushes, got, counted, unrouted, closed, uploads, reassembled>>

\* beginHostFrame, with or without a ROUTES record.
BeginFrame(r) ==
    /\ ~closed /\ frame = "none" /\ frame' = "begun" /\ routes' = r
    /\ UNCHANGED <<inbound, dropped, pushes, got, counted, unrouted, notify, scheduled, closed, uploads, reassembled>>

\* A frame that may be held waits for a message while some kind is routed.
Wait ==
    /\ frame = "begun" /\ ~Ready /\ Routed # {} /\ frame' = "waiting" /\ notify' = TRUE
    /\ UNCHANGED <<routes, inbound, dropped, pushes, got, counted, unrouted, scheduled, closed, uploads, reassembled>>
OtherSettles ==
    /\ frame = "waiting" /\ frame' = "woken" /\ UNCHANGED <<routes, inbound, dropped, pushes, got, counted>>
    /\ UNCHANGED <<unrouted, notify, scheduled, closed, uploads, reassembled>>

\* applyPolicies keeps the newest of each kind, as many as its route keeps.
Kept(m) == Cardinality({n \in Numbers(m.kind, inbound) : n > m.n}) < routes[m.kind]
ApplyPolicies == SelectSeq(inbound, Kept)
PolicyDrops(k) ==
    IF k \in Routed THEN Cardinality(Numbers(k, inbound)) - Cardinality(Numbers(k, ApplyPolicies)) ELSE 0

\* finishHostFrame with room for the counts of the kinds R and for n messages,
\* none unless every count went.
\* Mutant: what did not fit is left in reverse.
LeftReversed(n) == Reverse(SubSeq(ApplyPolicies, n + 1, Len(ApplyPolicies)))
Left(n) == SubSeq(ApplyPolicies, n + 1, Len(ApplyPolicies))
MayDeliver(R) == \A k \in Kinds : dropped[k] + PolicyDrops(k) > 0 => k \in R
FinishFrame(R, n) ==
    /\ frame \in {"begun", "woken"} /\ n <= Len(ApplyPolicies) /\ (n > 0 => MayDeliver(R))
    /\ counted' = [k \in Kinds |-> IF k \in R THEN counted[k] + dropped[k] + PolicyDrops(k) ELSE counted[k]]
    /\ dropped' = [k \in Kinds |-> IF k \in R THEN 0 ELSE dropped[k] + PolicyDrops(k)]
    /\ got' = got \o SubSeq(ApplyPolicies, 1, n)
    /\ inbound' = Left(n)
    /\ unrouted' = unrouted \union UNION {Numbers(k, inbound) : k \in Kinds \ Routed}
    /\ frame' = "none" /\ notify' = FALSE
    /\ UNCHANGED <<routes, pushes, scheduled, closed, uploads, reassembled>>

-----------------------------------------------------------------------------
\* receiveUpload, of the first n bytes: charged in full, whatever then arrives.
Fits(t) == reassembled + Total[t] <= Limit
BeginUpload(t, n) ==
    /\ ~closed /\ uploads[t] = Absent /\ Fits(t) /\ n <= Total[t]
    /\ uploads' = [uploads EXCEPT ![t] = n] /\ reassembled' = reassembled + Total[t]
    /\ UNCHANGED streams

\* A later piece, in order and within the total.
ReceiveUpload(t, n) ==
    /\ uploads[t] # Absent /\ n > 0 /\ uploads[t] + n <= Total[t]
    /\ uploads' = [uploads EXCEPT ![t] = @ + n] /\ UNCHANGED <<streams, reassembled>>

\* readArguments takes a complete upload; ABORT drops one at any point.
\* Mutant: only the bytes that arrived are given back.
GivenBackReceived(t) == reassembled - uploads[t]
GivenBack(t) == reassembled - Total[t]
TakeUpload(t) ==
    /\ uploads[t] = Total[t]
    /\ uploads' = [uploads EXCEPT ![t] = Absent] /\ reassembled' = GivenBack(t) /\ UNCHANGED streams
AbortUpload(t) ==
    /\ uploads[t] # Absent
    /\ uploads' = [uploads EXCEPT ![t] = Absent] /\ reassembled' = GivenBack(t) /\ UNCHANGED streams

\* closeHostChannel: uploads go, and a frame that waits is let go.
CloseHostChannel ==
    /\ ~closed /\ closed' = TRUE
    /\ uploads' = [t \in Transfers |-> Absent] /\ reassembled' = 0
    /\ notify' = FALSE /\ frame' = IF notify /\ frame = "waiting" THEN "woken" ELSE frame
    /\ UNCHANGED <<routes, inbound, dropped, pushes, got, counted, unrouted, scheduled>>

Next ==
    \/ \E k \in Kinds : PushMessage(k)
    \/ CloseHostChannel \/ ScheduledWake \/ Wait \/ OtherSettles
    \/ \E r \in [Kinds -> Keeps] : BeginFrame(r)
    \/ \E R \in SUBSET Kinds, n \in 0..Len(inbound) : FinishFrame(R, n)
    \/ \E t \in Transfers :
          \/ TakeUpload(t) \/ AbortUpload(t)
          \/ \E n \in 0..Total[t] : BeginUpload(t, n) \/ ReceiveUpload(t, n)

Spec == Init /\ [][Next]_vars

-----------------------------------------------------------------------------
TypeOK ==
    /\ routes \in [Kinds -> Keeps] /\ Len(inbound) <= Bound
    /\ frame \in {"none", "begun", "waiting", "woken"}
    /\ \A t \in Transfers : uploads[t] \in 0..Total[t] \union {Absent}

\* The limit holds, and what is charged is the sum of the uploads in progress,
\* however they end.
ReassemblyExact ==
    /\ reassembled <= Limit
    /\ reassembled = MapThenSumSet(LAMBDA t : Total[t], {t \in Transfers : uploads[t] # Absent})

\* Messages are delivered in the order they were pushed, across kinds and frames.
InOrder == \A i, j \in DOMAIN got : i < j => got[i].n < got[j].n

\* Every message pushed is delivered, queued, counted as dropped or was of a
\* kind nothing routed: none goes unaccounted.
DropsCounted ==
    \A k \in Kinds :
        Cardinality(Numbers(k, pushes)) =
            Cardinality(Numbers(k, got)) + Cardinality(Numbers(k, inbound)) + dropped[k] + counted[k]
            + Cardinality(unrouted \intersect Numbers(k, pushes))

\* A frame that waits for messages is registered, and once one is queued a wake
\* is on its way.
NoLostWake == frame = "waiting" => notify /\ (Ready => scheduled)

\* A route keeps the newest message of its kind: the last one pushed while the
\* kind was routed is delivered or still queued.
NewestKept ==
    \A k \in Routed : LET N == Numbers(k, pushes) IN
        N # {} /\ pushes[Max(N)].routed => Max(N) \in Numbers(k, got) \union Numbers(k, inbound)
=============================================================================
