-------------------------- MODULE MCBrowserAnswers --------------------------
(***************************************************************************)
(* Who asks in the browser is answered: calls of the page, the frames of   *)
(* an application, the page and its Worker, the guest, file operations and *)
(* the requests of playgrounds, on small instances.  They share no state   *)
(* here: a behaviour is one of one component, named by `part`, and the     *)
(* others stay as they start.                                              *)
(***************************************************************************)
EXTENDS HostCalls, FiniteSets

VARIABLES
    part,
    req, armed, held, settled, leases, shipped, mode, wake, answer, effects, signalled, outcome,
    pending, settles, launched, pushed, controllers, signals, ended, terminated, app, cancelled, opened, hostPush, early,
    taken, asked, quit, persist, toWorker, toPage,
    instance, restored, retried, booted, guestClosed, waiting, messages, resultSequence, timer, timerOf, delivered, caller,
    vm, fromGuest, toGuest,
    requests, at, stage, failed, root, refused, content, locked, foreign, handles, nextHandle, over,
    ready, unsent, unanswered, posted, queued, busy, replies, activated, buffer, delay, calls, faults, page,
    docReady, generation, lastSource, turns, active, parse, hovered, docFaults, docCalls, runs, source, docTimer, editor

frameVars == <<req, armed, held, settled, leases, shipped, mode, wake, answer, effects, signalled, outcome>>
pageVars == <<pending, settles, launched, pushed, controllers, signals, ended, terminated, app, cancelled, opened, hostPush,
              early, taken, asked, quit, persist, toWorker, toPage>>
guestVars == <<instance, restored, retried, booted, guestClosed, waiting, messages, resultSequence, timer, timerOf,
               delivered, caller, vm, fromGuest, toGuest>>
fileVars == <<requests, at, stage, failed, root, refused, content, locked, foreign, handles, nextHandle, over>>
playVars == <<ready, unsent, unanswered, posted, queued, busy, replies, activated, buffer, delay, calls, faults, page>>
docVars == <<docReady, generation, lastSource, turns, active, parse, hovered, docFaults, docCalls, runs, source, docTimer, editor>>
all == <<part, vars, frameVars, pageVars, guestVars, fileVars, playVars, docVars>>

\* A sleep, a request with a lease and one without.
Frames == INSTANCE EffectFrames WITH
    Requests <- 1..3, Leased <- {3}, Timers <- {1}, Size <- [r \in 1..3 |-> 2],
    Budget <- 4, Slot <- 5, PerTurn <- 2, PerRun <- 3, frame <- shipped
\* One call of the application on the page.
Session == INSTANCE PageSession WITH Calls <- {1}, MaxPushes <- 0, MaxEarly <- 1, call <- asked
\* A snapshot that may be restored and fail.
Guest == INSTANCE GuestSession WITH
    MaxFrames <- 4, ready <- booted, closed <- guestClosed, toPage <- fromGuest, toWorker <- toGuest
\* One file opened, closed, reopened and removed, by a storage that refuses.
Operation(kind, with, handle) == [op |-> kind, file |-> "f", mode |-> with, handle |-> handle, offset |-> 0]
Store == INSTANCE FileStore WITH
    Files <- {"f"}, MaxRequests <- 3, MaxSize <- 2, MaxRefusals <- 2,
    Operations <- {Operation("open", m, 0) : m \in {"r", "w"}} \cup {Operation("remove", "r", 0), Operation("close", "r", 1)}
\* A playground whose Worker lets one request wait.
Play == INSTANCE PlaygroundPage WITH
    Clean <- {0}, Cap <- 1, MaxEdits <- 0, MaxCalls <- 3, MaxFaults <- 1,
    waiting <- unsent, pending <- unanswered, timer <- delay

\* An editor of the documentation whose compiler may fail.
Doc == INSTANCE DocPlayground WITH
    Editors <- {"e"}, Clean <- {0}, MaxEdits <- 1, MaxCalls <- 2, MaxRuns <- 2, MaxFaults <- 1,
    ready <- docReady, queue <- turns, faults <- docFaults, calls <- docCalls, timer <- docTimer

AllInit ==
    /\ part \in {"calls", "frames", "session", "guest", "store", "play", "doc"}
    /\ Init /\ Frames!Init /\ Session!Init /\ Guest!Init /\ Store!Init /\ Play!Init /\ Doc!Init

CallsStep(step) == part = "calls" /\ step /\ UNCHANGED <<part, frameVars, pageVars, guestVars, fileVars, playVars, docVars>>
FramesStep(step) == part = "frames" /\ step /\ UNCHANGED <<part, vars, pageVars, guestVars, fileVars, playVars, docVars>>
SessionStep(step) == part = "session" /\ step /\ UNCHANGED <<part, vars, frameVars, guestVars, fileVars, playVars, docVars>>
GuestStep(step) == part = "guest" /\ step /\ UNCHANGED <<part, vars, frameVars, pageVars, fileVars, playVars, docVars>>
StoreStep(step) == part = "store" /\ step /\ UNCHANGED <<part, vars, frameVars, pageVars, guestVars, playVars, docVars>>
PlayStep(step) == part = "play" /\ step /\ UNCHANGED <<part, vars, frameVars, pageVars, guestVars, fileVars, docVars>>
DocStep(step) == part = "doc" /\ step /\ UNCHANGED <<part, vars, frameVars, pageVars, guestVars, fileVars, playVars>>
AllNext ==
    \/ CallsStep(Next) \/ FramesStep(Frames!Next) \/ SessionStep(Session!Next)
    \/ GuestStep(Guest!Next) \/ StoreStep(Store!Next) \/ PlayStep(Play!Next) \/ DocStep(Doc!Next)

\* The fairness of each component, for the one that moves: a disjunction of
\* steps of different parts is, in a behaviour of one part, its own step.
AllFair ==
    /\ \A c \in Calls : WF_all(CallsStep(HandlerReturns(c)) \/ (c <= 3 /\ FramesStep(Frames!Settle(c))))
    /\ SF_all(CallsStep(BeginFrame("begun")))
    /\ WF_all(\/ CallsStep(\E n \in 0..Len(answers) : FinishFrame(n)) \/ FramesStep(Frames!HeldSettled)
              \/ SessionStep(Session!PageReceives) \/ GuestStep(Guest!TimesOut) \/ StoreStep(Store!Step)
              \/ PlayStep(Play!Ready \/ Play!BootError) \/ DocStep(Doc!StartOp))
    /\ WF_all(\/ CallsStep(FailFrame) \/ FramesStep(Frames!TurnPasses) \/ SessionStep(Session!WorkerReceives)
              \/ GuestStep(Guest!Receive) \/ PlayStep(Play!Receive) \/ DocStep(Doc!Boot))
    /\ WF_all(\/ FramesStep(Frames!AnswerFrame) \/ SessionStep(Session!Loads(TRUE)) \/ GuestStep(Guest!OnMessage(1))
              \/ PlayStep(\E ok \in BOOLEAN : Play!CompilerAnswers(ok)) \/ DocStep(Doc!Answer))
    /\ WF_all(\/ FramesStep(Frames!Aborted) \/ SessionStep(cancelled /\ Session!AppEnds) \/ GuestStep(Guest!OnMessage(2))
              \/ PlayStep(Play!Arrive) \/ DocStep(Doc!ProgramEnds("e")))
    /\ WF_all(\/ FramesStep(\E m \in {"any", "turn"} : Frames!ShipFrame({}, m, TRUE)) \/ SessionStep(Session!PersistSettles)
              \/ PlayStep(Play!ProgramEnds))
    /\ WF_all(SessionStep(Session!HandlerSettles(1, TRUE)))

AllSpec == AllInit /\ [][AllNext]_all /\ AllFair

-----------------------------------------------------------------------------
\* A response meets the frame the guest waits on, and the guest's deadline runs
\* only while the guest works.
GuestSound == Guest!TypeOK /\ Guest!NeverStale /\ Guest!DeadlineIsGuests

\* A guest is replaced only before the page saw any of its frames: no effect is
\* performed twice.
ReplacedUnseen == Guest!ReplacedUnseen

\* Every call of the page is answered unless the session ends (CallsAnswered),
\* every settled response reaches the application unless its run ends
\* (Frames!Answers), and every file operation is performed, even after ones
\* that failed (Store!Drains); every call of a Worker that lives is answered or
\* released (Session!CallsSettle), a cancelled run settles
\* (Session!CancelSettles), a pending receive of the guest's frames settles
\* (Guest!ReceiveSettles), and the Run button of a playground comes back
\* (Play!ButtonBack, Doc!RunEnds).  Each is the leads-to of one part: see Owed and Paid.
Owed(c) ==
    \/ part = "calls" /\ call[c] \in {"inflight", "answered"}
    \/ part = "frames" /\ c <= 3 /\ req[c] = "settled"
    \/ part = "store" /\ Len(requests) >= c
    \/ part = "session" /\ c = 1 /\ asked[1] \in {"calling", "handling", "answering", "failing", "releasing"}
    \/ part = "session" /\ c = 2 /\ \E i \in DOMAIN toWorker : toWorker[i].type = "cancel"
    \/ part = "guest" /\ c = 1 /\ caller = "receiving"
    \/ part = "play" /\ c = 1 /\ page.compile # "idle"
    \/ part = "doc" /\ c = 1 /\ editor["e"].ctl # 0
Paid(c) ==
    \/ part = "calls" /\ (call[c] = "over" \/ closed)
    \/ part = "frames" /\ c <= 3 /\ (req[c] = "answered" \/ outcome # "running")
    \/ part = "store" /\ at > c
    \/ part = "session" /\ c = 1 /\ (asked[1] \in {"queued", "owned", "released", "failed"} \/ terminated)
    \/ part = "session" /\ c = 2 /\ ~pending
    \/ part = "guest" /\ c = 1 /\ caller # "receiving"
    \/ part = "play" /\ c = 1 /\ page.compile = "idle"
    \/ part = "doc" /\ c = 1 /\ editor["e"].ctl = 0
AllAnswered == \A c \in Calls : Owed(c) ~> Paid(c)
=============================================================================
