---------------------------- MODULE EffectFrames ----------------------------
(***************************************************************************)
(* The run of a browser application: the guest ships frames of requests    *)
(* and is answered one frame at a time (runNuppLuaJITApp,                  *)
(* runtime/luajit/app-runtime.mjs; handleBrowserEffects,                   *)
(* runtime/wasm/app-runtime.mjs).  A request that names a lease settles    *)
(* inside its frame; another outlives it unless the frame asks for all its *)
(* answers, and is answered by a later frame.  The frames' os.host records *)
(* are in HostCalls and HostStreams; the byte limits are counted as the    *)
(* number of effects is, and left out.                                     *)
(***************************************************************************)
EXTENDS Naturals, Sequences, SequencesExt, FiniteSetsExt

CONSTANTS
    Requests,       \* the requests the guest may make, each once
    Leased,         \* those that name a lease of their frame
    Timers,         \* those that sleep
    Size,           \* the length of each request's response
    Budget,         \* RESPONSE_TEXT_BUDGET
    Slot,           \* what the guest's mailbox holds
    PerTurn, PerRun \* limits.perTurn.maxEffects and limits.perRun.maxEffects

VARIABLES
    req,            \* "new", "running", "settled" or "answered", per request
    armed,          \* timers that will fire
    held,           \* the requests the frame is held for
    settled,        \* detached requests that settled and are not answered
    leases,         \* leases of the frame that are not released
    frame,          \* "guest", "held", "waiting", "turn" or "ready"
    mode,           \* how long the frame may be held: "all", "any" or "turn"
    wake,           \* is detached.wake registered
    answer,         \* the last answer: its held and its detached responses
    effects,        \* effects counted this turn and this run
    signalled,      \* has the run's signal been aborted
    outcome         \* "running", or how the run ended

vars == <<req, armed, held, settled, leases, frame, mode, wake, answer, effects, signalled, outcome>>

Running == {r \in Requests : req[r] = "running"}
Pending == Running \ held
Length(S) == MapThenSumSet(LAMBDA r : Size[r], S)

Init ==
    /\ req = [r \in Requests |-> "new"] /\ armed = {}
    /\ held = {} /\ settled = <<>> /\ leases = {}
    /\ frame = "guest" /\ mode = "all" /\ wake = FALSE
    /\ answer = [held |-> {}, detached |-> <<>>]
    /\ effects = [turn |-> 0, run |-> 0]
    /\ signalled = FALSE /\ outcome = "running"

\* abort of the signal: every sleeping request's timer is cleared.
Signal == signalled' = TRUE /\ armed' = {}

\* The finally block, after which nothing answers the guest.
\* Mutant: the run's signal is not aborted when the run is over.
FinallyQuietly(how) == outcome' = how /\ UNCHANGED <<signalled, armed>>
Finally(how) == outcome' = how /\ Signal

-----------------------------------------------------------------------------
\* boundToFrame, for a request of this protocol.
\* Mutant: the lease a result is written to is forgotten.
BoundToFrameLoosely(r) == FALSE
BoundToFrame(r) == r \in Leased

\* count('maxEffects', n), after the turn began anew or not.
\* Mutant: a new turn forgets what the run has counted.
CountedAfresh(begins, n) == [turn |-> (IF begins THEN 0 ELSE effects.turn) + n, run |-> (IF begins THEN 0 ELSE effects.run) + n]
Counted(begins, n) == [turn |-> (IF begins THEN 0 ELSE effects.turn) + n, run |-> effects.run + n]

\* Mutant: only the run's limit is checked.
ExceededRun(e) == e.run > PerRun
Exceeded(e) == e.turn > PerTurn \/ e.run > PerRun

\* handleBrowserEffects starts every request of S.
StartRequests(S, m) ==
    /\ req' = [r \in Requests |-> IF r \in S THEN "running" ELSE req[r]]
    /\ armed' = armed \union (S \cap Timers)
    /\ held' = {r \in S : m = "all" \/ BoundToFrame(r)}
    /\ leases' = S \cap Leased /\ frame' = "held"

\* A frame of requests S (none: a poll): counted against the limits, and started.
ShipFrame(S, m, begins) ==
    /\ frame = "guest" /\ outcome = "running" /\ ~signalled
    /\ S \subseteq {r \in Requests : req[r] = "new"} /\ mode' = m
    /\ effects' = Counted(begins, Cardinality(S))
    /\ IF Exceeded(effects')
       THEN Finally("limit") /\ UNCHANGED <<req, held, leases, frame>>
       ELSE StartRequests(S, m) /\ UNCHANGED <<signalled, outcome>>
    /\ UNCHANGED <<settled, wake, answer>>

\* The guest's last frame is its result.
GuestDone ==
    /\ frame = "guest" /\ outcome = "running" /\ ~signalled /\ Finally("done")
    /\ UNCHANGED <<req, held, settled, leases, frame, mode, wake, answer, effects>>

\* The response of a request: held with its frame, or queued and the wait ended.
\* Mutant: a frame that waits is not told.
ToldNobody == UNCHANGED <<wake, frame>>
Told == wake' = FALSE /\ frame' = IF wake THEN "ready" ELSE frame
Respond(r) ==
    /\ req' = [req EXCEPT ![r] = "settled"]
    /\ IF r \in held THEN UNCHANGED <<settled, wake, frame>>
       ELSE settled' = Append(settled, r) /\ Told

\* performEffect of a request without a lease: a value, or an error.
SettlePlain(r) ==
    /\ r \in Running \ (Leased \union Timers) /\ Respond(r)
    /\ UNCHANGED <<armed, held, leases, mode, answer, effects, signalled, outcome>>

\* performTimeEffect: the timer fires, or the signal rejected it.
SettleTimer(r) ==
    /\ r \in Running \cap Timers /\ (r \in armed \/ signalled)
    /\ armed' = armed \ {r} /\ Respond(r)
    /\ UNCHANGED <<held, leases, mode, answer, effects, signalled, outcome>>

\* performEffect of a request with a lease: released when the performer ran its
\* try block, kept when it threw before (an address that is not HTTP, a body
\* released or a file closed since, a signal already aborted).
SettleLeased(r, tried) ==
    /\ r \in Running \cap Leased /\ Respond(r)
    /\ leases' = IF tried THEN leases \ {r} ELSE leases
    /\ UNCHANGED <<armed, held, mode, answer, effects, signalled, outcome>>

-----------------------------------------------------------------------------
\* Promise.all(held), and how long the frame is held after it.
\* Mutant: what settled while the held requests were waited for is overlooked.
NothingHeld == held = {}
NothingYet == held = {} /\ settled = <<>>
HeldSettled ==
    /\ frame = "held" /\ held \cap Running = {}
    /\ frame' = IF mode = "any" THEN IF NothingYet THEN IF Pending # {} THEN "waiting" ELSE "turn" ELSE "ready"
                ELSE IF mode = "turn" THEN "turn" ELSE "ready"
    /\ wake' = (frame' = "waiting")
    /\ UNCHANGED <<req, armed, held, settled, leases, mode, answer, effects, signalled, outcome>>

\* nextHostTurn.
TurnPasses ==
    /\ frame = "turn" /\ frame' = "ready"
    /\ UNCHANGED <<req, armed, held, settled, leases, mode, wake, answer, effects, signalled, outcome>>

\* packedResponses: how many detached responses go.  Only held responses count
\* as there being one already.
Taken ==
    LET fits(n) == Length(held) + Length({settled[i] : i \in 1..n}) <= Budget
    IN IF held = {} THEN Len(settled) ELSE Max({n \in 0..Len(settled) : \A k \in 1..n : fits(k)})
\* Mutant: the responses that did not fit are dropped.
LeftOver(n) == <<>>
Left(n) == SubSeq(settled, n + 1, Len(settled))

\* response(): every lease was released.
AllReleased == leases = {}

\* The answer goes to the guest, with every lease of the frame.
AnswerFrame ==
    /\ frame = "ready" /\ outcome = "running"
    /\ LET n == Taken
           sent == SubSeq(settled, 1, n)
       IN /\ answer' = [held |-> held, detached |-> sent]
          /\ settled' = Left(n)
          /\ req' = [r \in Requests |-> IF r \in held \union ToSet(sent) THEN "answered" ELSE req[r]]
    /\ frame' = "guest" /\ held' = {}
    /\ IF ~AllReleased THEN Finally("retained")
       ELSE IF Length(held \union ToSet(answer'.detached)) > Slot THEN Finally("mailbox")
       ELSE UNCHANGED <<armed, signalled, outcome>>
    /\ UNCHANGED <<leases, mode, wake, effects>>

\* The page cancels, or the run's deadline passes; the race is lost next.
Abort ==
    /\ outcome = "running" /\ ~signalled /\ Signal
    /\ UNCHANGED <<req, held, settled, leases, frame, mode, wake, answer, effects, outcome>>
Aborted ==
    /\ outcome = "running" /\ signalled /\ Finally("aborted")
    /\ UNCHANGED <<req, held, settled, leases, frame, mode, wake, answer, effects>>

Settle(r) == SettlePlain(r) \/ SettleTimer(r) \/ \E tried \in BOOLEAN : SettleLeased(r, tried)
Next ==
    \/ \E S \in SUBSET Requests, m \in {"all", "any", "turn"}, begins \in BOOLEAN : ShipFrame(S, m, begins)
    \/ GuestDone \/ HeldSettled \/ TurnPasses \/ AnswerFrame \/ Abort \/ Aborted
    \/ \E r \in Requests : Settle(r)

\* Requests settle, timers fire, and a guest with nothing to do polls.
Fairness ==
    /\ \A r \in Requests : WF_vars(Settle(r))
    /\ WF_vars(HeldSettled) /\ WF_vars(TurnPasses) /\ WF_vars(AnswerFrame) /\ WF_vars(Aborted)
    /\ WF_vars(\E m \in {"any", "turn"} : ShipFrame({}, m, TRUE))

Spec == Init /\ [][Next]_vars
FairSpec == Spec /\ Fairness

-----------------------------------------------------------------------------
TypeOK ==
    /\ req \in [Requests -> {"new", "running", "settled", "answered"}] /\ armed \subseteq Timers
    /\ held \subseteq Requests /\ settled \in Seq(Requests) /\ leases \subseteq Leased
    /\ frame \in {"guest", "held", "waiting", "turn", "ready"} /\ mode \in {"all", "any", "turn"}
    /\ effects \in [turn : Nat, run : Nat] /\ (outcome = "running" => effects.turn <= PerTurn)
    /\ outcome \in {"running", "done", "limit", "retained", "mailbox", "aborted"}

\* A request is answered once: until then it runs, or its response is held with
\* the frame, or it is queued, and only in one of these places.
Accounted ==
    /\ \A r \in Requests : req[r] = "settled" <=> (r \in held /\ r \notin Running) \/ r \in ToSet(settled)
    /\ held \cap ToSet(settled) = {} /\ IsInjective(settled)

\* While the run lasts a request whose lease the guest lent is of the frame
\* being held, and the guest does not run.
LeaseInFrame == outcome = "running" => \A r \in Running \cap Leased : r \in held /\ frame # "guest"

\* A frame waits only for something to happen: nothing has settled, something
\* will, and it will be told.
NoLostWake == frame = "waiting" => wake /\ settled = <<>> /\ Pending # {}

\* No timer outlives the run, however it ended.
NoTimerLeft == outcome # "running" => armed = {}

\* No run performs more effects than perRun.maxEffects allows.
RunBounded == Cardinality({r \in Requests : req[r] # "new"}) <= PerRun

\* A response that waits for a later frame is delivered, unless the run ends.
Answers == \A r \in Requests : req[r] = "settled" ~> req[r] = "answered" \/ outcome # "running"

\* An answer of more than one response fits the budget of the guest's slot.
AnswerFits ==
    LET all == answer.held \union ToSet(answer.detached) IN
    answer.held = {} /\ Cardinality(all) > 1 => Length(all) <= Budget

\* No operation strands a lease of its frame.
NoneRetained == outcome # "retained"
=============================================================================
