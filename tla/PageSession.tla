----------------------------- MODULE PageSession -----------------------------
(***************************************************************************)
(* A page and the Worker of its packaged application                       *)
(* (runtime/wasm/browser-entry.mjs, runtime/luajit/browser-worker.mjs).    *)
(* The page runs the application once, pushes messages to it, answers its  *)
(* host calls and its request for persistent storage, cancels and closes;  *)
(* the two only exchange messages.  What the Worker does with a call       *)
(* between its answer and the application is in HostCalls.                 *)
(***************************************************************************)
EXTENDS Naturals, Sequences, SequencesExt, FiniteSets

CONSTANTS
    Calls,          \* host calls answered on the page, each made once
    MaxPushes,      \* messages the page pushes
    MaxEarly        \* bound of earlyPushes

VARIABLES
    pending,        \* is the run's promise in the page's table
    settles,        \* times it was settled
    launched,
    pushed,         \* messages pushed so far
    controllers,    \* the page's hostCalls
    signals,        \* calls whose handler was told to stop
    ended,          \* times the page's end ran
    terminated,     \* has the page terminated the Worker
    app,            \* "none", "loading", "unloaded", "running" or "over"
    cancelled,      \* the Worker's controller is aborted
    opened,         \* has the application opened its channel
    hostPush,       \* is hostPush set
    early,          \* earlyPushes
    taken,          \* pushes the application's channel was given
    call,           \* where each call is
    quit,           \* calls the application stopped waiting for
    persist,        \* "none", "asked", "asking" or "answered"
    toWorker, toPage

page == <<pending, settles, launched, pushed, controllers, signals, ended, terminated>>
worker == <<app, cancelled, opened, hostPush, early, taken>>
vars == <<pending, settles, launched, pushed, controllers, signals, ended, terminated,
          app, cancelled, opened, hostPush, early, taken, call, quit, persist, toWorker, toPage>>

M(type, v) == [type |-> type, v |-> v]
ToWorker(m) == toWorker' = IF terminated THEN toWorker ELSE Append(toWorker, m)
ToPage(s) == toPage' = toPage \o s
In(S) == {c \in Calls : call[c] \in S}
Moved(c, to) == call' = [call EXCEPT ![c] = to]

Init ==
    /\ pending = FALSE /\ settles = 0 /\ launched = FALSE /\ pushed = 0
    /\ controllers = {} /\ signals = {} /\ ended = 0 /\ terminated = FALSE
    /\ app = "none" /\ cancelled = FALSE /\ opened = FALSE /\ hostPush = FALSE /\ early = <<>> /\ taken = <<>>
    /\ call = [c \in Calls |-> "new"] /\ quit = {} /\ persist = "none"
    /\ toWorker = <<>> /\ toPage = <<>>

-----------------------------------------------------------------------------
\* The page: run (once), push, cancel, close.
Run ==
    /\ ~launched /\ launched' = TRUE /\ pending' = TRUE /\ ToWorker(M("run", 0))
    /\ UNCHANGED <<settles, pushed, controllers, signals, ended, terminated, worker, call, quit, persist, toPage>>
Push ==
    /\ launched /\ pushed < MaxPushes /\ pushed' = pushed + 1 /\ ToWorker(M("push", pushed'))
    /\ UNCHANGED <<pending, settles, launched, controllers, signals, ended, terminated, worker, call, quit, persist, toPage>>
Cancel ==
    /\ launched /\ ~cancelled /\ pending /\ \A i \in DOMAIN toWorker : toWorker[i].type # "cancel"
    /\ ToWorker(M("cancel", 0))
    /\ UNCHANGED <<page, worker, call, quit, persist, toPage>>

\* The promise is settled by whoever finds it in the table.
Settle == pending' = FALSE /\ settles' = IF pending THEN settles + 1 ELSE settles
\* Mutant: an error of the Worker leaves the promise in the table.
SettleKept == settles' = (IF pending THEN settles + 1 ELSE settles) /\ UNCHANGED pending
SettleFailed == Settle
WorkerError ==
    /\ launched /\ ~terminated /\ pending /\ SettleFailed
    /\ UNCHANGED <<launched, pushed, controllers, signals, ended, terminated, worker, call, quit, persist, toWorker, toPage>>

\* close: the Worker is gone, with what it held and what was on its way.
Close ==
    /\ launched /\ ~terminated /\ terminated' = TRUE /\ Settle
    /\ toWorker' = <<>> /\ toPage' = <<>>
    /\ call' = [c \in Calls |-> IF call[c] \in {"answering", "queued", "releasing"} THEN "lost" ELSE call[c]]
    /\ UNCHANGED <<launched, pushed, controllers, signals, ended, worker, quit, persist>>

\* The page handles a message of the Worker.
PageReceives ==
    /\ toPage # <<>> /\ toPage' = Tail(toPage)
    /\ LET m == Head(toPage) IN
       /\ IF m.type = "result" THEN Settle ELSE UNCHANGED <<pending, settles>>
       /\ controllers' = IF m.type = "call" THEN controllers \union {m.v} ELSE controllers
       /\ signals' = IF m.type = "abort" /\ m.v \in controllers THEN signals \union {m.v} ELSE signals
       /\ ended' = IF m.type = "end" THEN ended + 1 ELSE ended
       /\ call' = CASE m.type = "call" -> [call EXCEPT ![m.v] = "handling"]
                    [] m.type = "release" -> [call EXCEPT ![m.v] = "released"]
                    [] OTHER -> call
       /\ persist' = IF m.type = "persist" THEN "asking" ELSE persist
    /\ UNCHANGED <<launched, pushed, terminated, worker, quit, toWorker>>

\* A handler returns or throws: answered, even if nobody waits any more.
\* Mutant: a call that was aborted is not answered.
AnswersUnlessAborted(c) == c \notin signals
AnswersCall(c) == TRUE
HandlerSettles(c, ok) ==
    /\ call[c] = "handling" /\ controllers' = controllers \ {c}
    /\ IF AnswersCall(c) THEN ToWorker(M(IF ok THEN "answer" ELSE "error", c)) ELSE UNCHANGED toWorker
    /\ Moved(c, IF ok THEN IF terminated THEN "lost" ELSE "answering" ELSE "failing")
    /\ UNCHANGED <<pending, settles, launched, pushed, signals, ended, terminated, worker, quit, persist, toPage>>
PersistSettles ==
    /\ persist = "asking" /\ persist' = "asked" /\ ToWorker(M("persisted", 0))
    /\ UNCHANGED <<page, worker, call, quit, toPage>>

-----------------------------------------------------------------------------
\* A push reaches the channel, or waits for it to open, or finds no room.
\* Mutant: a push that finds no channel is dropped.
KeptNever(n) == early
Kept(n) == IF Len(early) < MaxEarly THEN Append(early, n) ELSE early
\* Mutant: a cancellation is heard only once the application runs.
ActiveRunning == app = "running"
Active == app \in {"loading", "running"}
WorkerReceives ==
    /\ toWorker # <<>> /\ ~terminated /\ toWorker' = Tail(toWorker)
    /\ LET m == Head(toWorker)
           answer == m.type = "answer" IN
       /\ app' = IF m.type = "run" THEN "loading" ELSE app
       /\ taken' = IF m.type = "push" /\ hostPush THEN Append(taken, m.v) ELSE taken
       /\ early' = IF m.type = "push" /\ ~hostPush THEN Kept(m.v) ELSE early
       /\ cancelled' = (cancelled \/ (m.type = "cancel" /\ Active))
       /\ call' = CASE answer -> [call EXCEPT ![m.v] = IF app = "over" THEN "releasing" ELSE "queued"]
                    [] m.type = "error" -> [call EXCEPT ![m.v] = "failed"]
                    [] OTHER -> call
       /\ ToPage(IF answer /\ app = "over" THEN <<M("release", m.v)>> ELSE <<>>)
       /\ persist' = IF m.type = "persisted" THEN "answered" ELSE persist
    /\ UNCHANGED <<page, opened, hostPush, quit>>

\* hostOption: the page's module is imported, or the run fails.
Loads(ok) ==
    /\ app = "loading" /\ ~terminated /\ app' = IF ok THEN "running" ELSE "unloaded"
    /\ ToPage(IF ok THEN <<>> ELSE <<M("result", 0)>>)
    /\ UNCHANGED <<page, cancelled, opened, hostPush, early, taken, call, quit, persist, toWorker>>

\* start, when the application first uses its channel: early pushes go first.
OpenChannel ==
    /\ app = "running" /\ ~opened /\ ~terminated /\ opened' = TRUE /\ hostPush' = TRUE
    /\ taken' = taken \o early /\ early' = <<>>
    /\ UNCHANGED <<page, app, cancelled, call, quit, persist, toWorker, toPage>>
AppCalls(c) ==
    /\ app = "running" /\ opened /\ ~terminated /\ call[c] = "new" /\ Moved(c, "calling")
    /\ ToPage(<<M("call", c)>>)
    /\ UNCHANGED <<page, worker, quit, persist, toWorker>>
\* Mutant: the page is not told.
AbortUnsaid(c) == <<>>
AbortSaid(c) == <<M("abort", c)>>
AppQuits(c) ==
    /\ app = "running" /\ ~terminated /\ c \in In({"calling", "handling", "answering"}) \ quit /\ quit' = quit \union {c}
    /\ ToPage(AbortSaid(c))
    /\ UNCHANGED <<page, worker, call, persist, toWorker>>
AppTakes(c) ==
    /\ app = "running" /\ ~terminated /\ call[c] = "queued" /\ Moved(c, "owned")
    /\ UNCHANGED <<page, worker, quit, persist, toWorker, toPage>>
AppPersists ==
    /\ app = "running" /\ ~terminated /\ persist = "none" /\ persist' = "asked" /\ ToPage(<<M("persist", 0)>>)
    /\ UNCHANGED <<page, worker, call, quit, toWorker>>

\* The run ends: its channel, if it opened, tells the handlers, releases what
\* was not taken and ends; then the result is posted.
Untaken == SetToSeq({M("release", c) : c \in In({"queued"})})
AppEnds ==
    LET inflight == In({"calling", "handling", "answering", "failing"}) \ quit IN
    /\ app = "running" /\ ~terminated /\ app' = "over" /\ hostPush' = FALSE
    /\ ToPage((IF opened THEN SetToSeq({M("abort", c) : c \in inflight}) \o Untaken \o <<M("end", 0)>> ELSE <<>>) \o <<M("result", 0)>>)
    /\ quit' = quit \union inflight
    /\ call' = [c \in Calls |-> IF call[c] = "queued" THEN "releasing" ELSE call[c]]
    /\ UNCHANGED <<page, cancelled, opened, early, taken, persist, toWorker>>

Next ==
    \/ Run \/ Push \/ Cancel \/ WorkerError \/ Close \/ PageReceives \/ PersistSettles
    \/ WorkerReceives \/ Loads(TRUE) \/ Loads(FALSE) \/ OpenChannel \/ AppPersists \/ AppEnds
    \/ \E c \in Calls : HandlerSettles(c, TRUE) \/ HandlerSettles(c, FALSE) \/ AppCalls(c) \/ AppQuits(c) \/ AppTakes(c)

\* Messages are handled, handlers settle, and a cancelled application ends.
Fairness ==
    /\ WF_vars(PageReceives) /\ WF_vars(WorkerReceives) /\ WF_vars(Loads(TRUE)) /\ WF_vars(cancelled /\ AppEnds)
    /\ WF_vars(PersistSettles) /\ \A c \in Calls : WF_vars(HandlerSettles(c, TRUE))
Spec == Init /\ [][Next]_vars
FairSpec == Spec /\ Fairness

-----------------------------------------------------------------------------
InTransit(type, c) == \E i \in DOMAIN toPage : toPage[i].type = type /\ toPage[i].v = c
TypeOK ==
    /\ app \in {"none", "loading", "unloaded", "running", "over"} /\ Len(early) <= MaxEarly /\ controllers \subseteq Calls
    /\ (pending <=> launched /\ settles = 0) /\ ended <= 1
    /\ \A c \in Calls : call[c] = "handling" <=> c \in controllers

\* The promise of the run is settled once.
SettledOnce == settles <= 1

\* Until the application ends, what it was given, what waits and what is on its
\* way are the pushes in order; only a full earlyPushes loses any.
PushesInOrder ==
    LET all == taken \o early \o SelectSeq([i \in DOMAIN toWorker |-> IF toWorker[i].type = "push" THEN toWorker[i].v ELSE 0], LAMBDA v : v > 0) IN
    /\ \A i, j \in DOMAIN all : i < j => all[i] < all[j]
    /\ ~terminated /\ Len(all) < pushed => Len(early) = MaxEarly \/ opened

\* A handler the application quit waiting for has been told, or is being told,
\* or has settled.
QuitReaches == \A c \in quit : ~terminated /\ call[c] \in {"calling", "handling"} => c \in signals \/ InTransit("abort", c)

\* Every call of a Worker that lives is answered, and what came too late for the
\* application is released.
CallsSettle == \A c \in Calls : call[c] \in {"calling", "handling", "answering", "failing", "releasing"} ~> call[c] \in {"queued", "owned", "released", "failed"} \/ terminated

\* A run the page cancels settles, whatever the application was doing.
CancelSettles == (\E i \in DOMAIN toWorker : toWorker[i].type = "cancel") ~> ~pending

\* Once the application has finished and its messages are handled, the page's
\* end has run.
EndRuns == app = "over" /\ toPage = <<>> /\ ~terminated => ended = 1

\* What a handler returned is the application's or is released by someone.
NoneLost == \A c \in Calls : call[c] # "lost"
=============================================================================
