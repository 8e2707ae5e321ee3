---------------------------- MODULE GuestSession ----------------------------
(***************************************************************************)
(* The page's side of one guest (createGuest, runtime/luajit/host.mjs) and *)
(* the Worker that emulates it (runtime/luajit/vm-worker.mjs).  The guest  *)
(* yields numbered frames and is answered by number; a deadline bounds its *)
(* own work; a guest restored from a snapshot that fails before it is      *)
(* ready is started again without.  The caller receives a frame, serves it *)
(* and responds (runNuppLuaJITApp, createCompiler).                        *)
(***************************************************************************)
EXTENDS Naturals, Sequences

CONSTANTS MaxFrames     \* frames the guest may yield

Instances == 1..2
None == 0

VARIABLES
    instance,       \* the Worker the page listens to
    restored, retried, ready,
    closed,
    waiting,        \* is a receive pending
    messages,       \* frames delivered before they were asked for
    resultSequence, \* number of the frame to respond to
    timer,          \* "none", "boot" (fails the instance) or "frame" (closes)
    timerOf,        \* the instance a boot timer was armed for
    delivered,      \* has a frame of the guest been delivered
    caller,         \* "idle", "receiving", "serving" or "over"
    vm,             \* per instance: state, sequence number, is a frame active
    toPage,         \* messages from each instance
    toWorker        \* numbers of the responses on their way to each

page == <<instance, restored, retried, ready, closed, waiting, messages, resultSequence, timer, timerOf, delivered, caller>>
vars == <<instance, restored, retried, ready, closed, waiting, messages, resultSequence, timer, timerOf, delivered, caller, vm, toPage, toWorker>>

Message(type, n) == [type |-> type, sequence |-> n]
Post(i, m) == toPage' = [toPage EXCEPT ![i] = Append(@, m)]

Init ==
    /\ instance = 1 /\ restored = FALSE /\ retried = FALSE /\ ready = FALSE
    /\ closed = FALSE /\ waiting = FALSE /\ messages = <<>> /\ resultSequence = None
    /\ timer = "boot" /\ timerOf = 1 /\ delivered = FALSE /\ caller = "idle"
    /\ vm = [i \in Instances |-> [state |-> IF i = 1 THEN "booting" ELSE "absent", sequence |-> 1, active |-> FALSE]]
    /\ toPage = [i \in Instances |-> <<>>] /\ toWorker = [i \in Instances |-> <<>>]

-----------------------------------------------------------------------------
\* The Worker: fail, and what it posts while it boots and runs.
VmFail(i) == Post(i, Message("failed", None)) /\ vm' = [vm EXCEPT ![i].state = "failed"]

\* boot, with the snapshot (only the first instance asks for it) or without.
BootSnapshot ==
    /\ vm[1].state = "booting" /\ vm' = [vm EXCEPT ![1].state = "loading"]
    /\ Post(1, Message("snapshot-selected", None)) /\ UNCHANGED <<page, toWorker>>
BootFresh(i) ==
    /\ vm[i].state = "booting" /\ vm' = [vm EXCEPT ![i].state = "loading"]
    /\ IF i = 1 THEN Post(i, Message("snapshot-fallback", None)) ELSE UNCHANGED toPage
    /\ UNCHANGED <<page, toWorker>>
Ready(i) ==
    /\ vm[i].state = "loading" /\ vm' = [vm EXCEPT ![i].state = "running"]
    /\ Post(i, Message("ready", None)) /\ UNCHANGED <<page, toWorker>>

\* An asset is missing, the kernel panics, LuaJIT exits before its result.
Breaks(i) ==
    /\ vm[i].state \in {"booting", "loading", "running"} /\ VmFail(i) /\ UNCHANGED <<page, toWorker>>

\* A frame of the guest: a URL is answered here, an effect waits for the page,
\* the result ends it.
UrlFrame(i) ==
    /\ vm[i].state = "running" /\ ~vm[i].active /\ vm[i].sequence < MaxFrames
    /\ vm' = [vm EXCEPT ![i].sequence = @ + 1] /\ UNCHANGED <<page, toPage, toWorker>>
EffectFrame(i) ==
    /\ vm[i].state = "running" /\ ~vm[i].active /\ vm[i].sequence < MaxFrames
    /\ vm' = [vm EXCEPT ![i].active = TRUE]
    /\ Post(i, Message("effect", vm[i].sequence)) /\ UNCHANGED <<page, toWorker>>
DoneFrame(i) ==
    /\ vm[i].state = "running" /\ ~vm[i].active /\ vm' = [vm EXCEPT ![i].state = "completed"]
    /\ Post(i, Message("done", vm[i].sequence)) /\ UNCHANGED <<page, toWorker>>

\* A response: it must be to the active frame.
Response(i) ==
    /\ toWorker[i] # <<>> /\ vm[i].state \in {"booting", "loading", "running", "completed"}
    /\ toWorker' = [toWorker EXCEPT ![i] = Tail(@)]
    /\ IF vm[i].active /\ Head(toWorker[i]) = vm[i].sequence
       THEN vm' = [vm EXCEPT ![i].active = FALSE, ![i].sequence = @ + 1] /\ UNCHANGED toPage
       ELSE vm' = [vm EXCEPT ![i].state = "stale"] /\ Post(i, Message("failed", None))
    /\ UNCHANGED page

-----------------------------------------------------------------------------
\* close: once, the Worker terminated, a pending receive rejected.
Close ==
    /\ closed' = TRUE /\ timer' = "none" /\ waiting' = FALSE
    /\ vm' = [vm EXCEPT ![instance].state = "terminated"]
    /\ caller' = IF caller = "receiving" THEN "over" ELSE caller
    /\ UNCHANGED <<instance, restored, retried, ready, messages, resultSequence, timerOf, delivered>>

\* failed of the current instance: a restored one that is not ready is replaced.
\* Mutant: the second instance starts under the first one's timer.
LaunchUntimed == UNCHANGED <<timer, timerOf>>
Launch == timer' = "boot" /\ timerOf' = instance'
\* Mutant: a guest that has run is started again as well.
ReplaceableReady == restored /\ ~retried
Replaceable == restored /\ ~ready /\ ~retried
\* Mutant: the instance that failed is left running.
RelaunchedBeside == [vm EXCEPT ![2].state = "booting"]
Relaunched == [vm EXCEPT ![1].state = "terminated", ![2].state = "booting"]
Failed ==
    IF Replaceable
    THEN /\ retried' = TRUE /\ restored' = FALSE /\ instance' = 2 /\ Launch
         /\ vm' = Relaunched
         /\ UNCHANGED <<ready, closed, waiting, messages, resultSequence, delivered, caller>>
    ELSE Close

\* Mutant: the deadline runs on while the frame is served.
StillArmed == timer
Disarmed == "none"
\* deliver: to the pending receive, or kept, two at most.
Deliver(m) ==
    IF waiting \/ Len(messages) < 2
    THEN /\ waiting' = FALSE /\ messages' = IF waiting THEN messages ELSE Append(messages, m)
         /\ caller' = IF waiting THEN IF m.type = "done" THEN "over" ELSE "serving" ELSE caller
         /\ resultSequence' = m.sequence /\ timer' = Disarmed /\ delivered' = TRUE
         /\ UNCHANGED <<instance, restored, retried, ready, closed, timerOf, vm>>
    ELSE Close

\* onmessage and onerror of instance i; another's messages are ignored.
\* Mutant: the messages of a replaced instance are handled.
ListensAlways(i) == ~closed
Listens(i) == ~closed /\ i = instance
OnMessage(i) ==
    /\ toPage[i] # <<>> /\ toPage' = [toPage EXCEPT ![i] = Tail(@)] /\ UNCHANGED toWorker
    /\ LET m == Head(toPage[i]) IN
       IF ~Listens(i) THEN UNCHANGED <<page, vm>>
       ELSE CASE m.type = "failed" -> Failed
              [] m.type \in {"effect", "done"} -> Deliver(m)
              [] OTHER -> /\ restored' = (restored \/ m.type = "snapshot-selected")
                          /\ ready' = (ready \/ m.type = "ready")
                          /\ UNCHANGED <<instance, retried, closed, waiting, messages, resultSequence, timer, timerOf, delivered, caller, vm>>

\* The deadline passes: of booting to the first frame, or of a response to the next.
TimesOut ==
    /\ timer # "none" /\ UNCHANGED <<toPage, toWorker>>
    /\ IF timer = "frame" THEN Close
       ELSE IF timerOf = instance THEN Failed
       ELSE timer' = "none" /\ UNCHANGED <<instance, restored, retried, ready, closed, waiting, messages, resultSequence, timerOf, delivered, caller, vm>>

\* The caller receives: a frame kept for it, or it waits.
Receive ==
    /\ caller = "idle"
    /\ IF closed THEN caller' = "over" /\ UNCHANGED <<waiting, messages>>
       ELSE IF messages # <<>>
       THEN caller' = (IF Head(messages).type = "done" THEN "over" ELSE "serving") /\ messages' = Tail(messages) /\ UNCHANGED waiting
       ELSE caller' = "receiving" /\ waiting' = TRUE /\ UNCHANGED messages
    /\ UNCHANGED <<instance, restored, retried, ready, closed, resultSequence, timer, timerOf, delivered, vm, toPage, toWorker>>

\* respond: to the frame received, once.
Respond ==
    /\ caller = "serving"
    /\ IF closed \/ resultSequence = None THEN caller' = "over" /\ UNCHANGED <<resultSequence, timer, toWorker>>
       ELSE /\ toWorker' = [toWorker EXCEPT ![instance] = Append(@, resultSequence)]
            /\ resultSequence' = None /\ timer' = "frame" /\ caller' = "idle"
    /\ UNCHANGED <<instance, restored, retried, ready, closed, waiting, messages, timerOf, delivered, vm, toPage>>

\* The caller closes the guest, or its signal aborts.
Abort == ~closed /\ Close /\ UNCHANGED <<toPage, toWorker>>

Next ==
    \/ BootSnapshot \/ TimesOut \/ Receive \/ Respond \/ Abort
    \/ \E i \in Instances : BootFresh(i) \/ Ready(i) \/ Breaks(i) \/ UrlFrame(i) \/ EffectFrame(i) \/ DoneFrame(i) \/ Response(i) \/ OnMessage(i)

\* Messages arrive and timers fire; the guest itself may compute for ever.
Fairness == WF_vars(TimesOut) /\ WF_vars(Receive) /\ \A i \in Instances : WF_vars(OnMessage(i))
Spec == Init /\ [][Next]_vars
FairSpec == Spec /\ Fairness

-----------------------------------------------------------------------------
Live == {i \in Instances : vm[i].state \notin {"absent", "terminated"}}
TypeOK ==
    /\ instance \in Instances /\ timer \in {"none", "boot", "frame"} /\ Len(messages) <= 1
    /\ caller \in {"idle", "receiving", "serving", "over"} /\ (waiting <=> caller = "receiving")
    /\ \A i \in Instances : vm[i].sequence \in 1..MaxFrames
    /\ Live = IF closed THEN {} ELSE {instance}

\* A guest is replaced only before the page saw any of its frames: no effect is
\* performed twice.
ReplacedUnseen == [][instance' # instance => ~delivered]_vars

\* A response is always to the frame the guest waits on, whatever instance runs.
NeverStale == \A i \in Instances : vm[i].state # "stale"

\* The deadline runs only while the guest has work of its own: never while the
\* page holds one of its frames.
DeadlineIsGuests == caller = "serving" \/ messages # <<>> => timer = "none"

\* A pending receive settles: with a frame, or because the guest is given up.
ReceiveSettles == caller = "receiving" ~> caller # "receiving"
=============================================================================
