------------------------------ MODULE HostCalls ------------------------------
(***************************************************************************)
(* Calls of the page by an application (os.host; the page's side is        *)
(* runtime/wasm/host-channel.mjs).  Once a frame the application ships     *)
(* records, here at most one: a call, a cancellation, or that it gives up  *)
(* a result it was fetching.  The page dispatches them, waits while it has *)
(* nothing to say (handleBrowserEffects, runtime/wasm/app-runtime.mjs) and *)
(* fills the frame's inbox with answers.  An answer with large bytes is    *)
(* announced and fetched in pieces by later requests.  What a handler      *)
(* returned belongs to the application once delivered, and is released     *)
(* otherwise.                                                              *)
(***************************************************************************)
EXTENDS Naturals, Sequences, SequencesExt

CONSTANTS
    Calls,          \* the calls the application may make, each once
    Large,          \* those whose answer is announced and fetched
    Posts,          \* those made without waiting for an answer
    Unknown,        \* those of a kind no handler answers
    Cramped,        \* those whose encoded answer may not fit the first inbox
    Pieces          \* requests it takes to fetch a large answer

ASSUME CallsAssumption ==
    /\ Large \subseteq Calls /\ Posts \subseteq Calls \ Large /\ Unknown \subseteq Calls /\ Cramped \subseteq Calls
    /\ Pieces \in Nat \ {0}

VARIABLES
    call,           \* "new", "inflight", "posted", "answered" (queued) or "over", per call
    aborted,        \* has the handler's signal been aborted
    produced,       \* did the handler return values
    answers,        \* answers not delivered: the call, is it ok, is it encoded
    results,        \* announced results, with the pieces still to fetch
    owned,          \* results the application holds
    releases,       \* how often release ran, per call
    frame,          \* "none", "begun", "waiting", "woken" or "failed"
    notify,         \* is a notify registered with the channel
    closed

vars == <<call, aborted, produced, answers, results, owned, releases, frame, notify, closed>>

Answer(c, ok) == [call |-> c, ok |-> ok, encoded |-> FALSE]
NoFetch == 0
Announced == {c \in Calls : results[c] # NoFetch}

Init ==
    /\ call = [c \in Calls |-> "new"]
    /\ aborted = [c \in Calls |-> FALSE] /\ produced = aborted
    /\ answers = <<>> /\ results = [c \in Calls |-> NoFetch]
    /\ owned = {} /\ releases = [c \in Calls |-> 0]
    /\ frame = "none" /\ notify = FALSE /\ closed = FALSE

\* hostFrameReady and hostFrameWaitable, without streams.
Ready == answers # <<>>
Waitable == ~closed /\ \E c \in Calls : call[c] = "inflight"

\* wake: whoever registered is called, once.
Wake == notify' = FALSE /\ frame' = IF notify /\ frame = "waiting" THEN "woken" ELSE frame

\* answer: queued for the next inbox, and the waiting frame woken.
\* Mutant: the frame that waits is not woken.
AnsweredQuietly(c, ok) == answers' = Append(answers, Answer(c, ok)) /\ UNCHANGED <<notify, frame>>
Answered(c, ok) == answers' = Append(answers, Answer(c, ok)) /\ Wake

ReleaseResult(c) == releases' = [releases EXCEPT ![c] = @ + 1]

\* encodeAnswer of each answer of S: a large one is announced, to be fetched.
EncodeAnswers(S) ==
    results' = [c \in Calls |-> IF c \in Large /\ \E a \in S : a.call = c /\ a.ok /\ ~a.encoded
                                THEN Pieces ELSE results[c]]

-----------------------------------------------------------------------------
\* beginHostFrame with nothing to read, or records that end inside a record.
BeginFrame(f) ==
    /\ frame = "none" /\ ~closed /\ frame' = f
    /\ UNCHANGED <<call, aborted, produced, answers, results, owned, releases, notify, closed>>

\* A POST record: dispatchOneWay; what its handler returns is the page's to release.
BeginPost(c) ==
    /\ frame = "none" /\ ~closed /\ c \in Posts /\ call[c] = "new" /\ frame' = "begun"
    /\ call' = [call EXCEPT ![c] = "posted"]
    /\ UNCHANGED <<aborted, produced, answers, results, owned, releases, notify, closed>>
PostSettles(c) ==
    /\ call[c] = "posted" /\ call' = [call EXCEPT ![c] = "over"]
    /\ produced' = [produced EXCEPT ![c] = TRUE] /\ ReleaseResult(c)
    /\ UNCHANGED <<aborted, answers, results, owned, frame, notify, closed>>

\* A CALL record: dispatchCall up to the handler's await.
BeginCall(c) ==
    /\ frame = "none" /\ ~closed /\ c \notin Posts /\ call[c] = "new" /\ frame' = "begun"
    /\ IF c \in Unknown THEN answers' = Append(answers, Answer(c, FALSE)) ELSE UNCHANGED answers
    /\ call' = [call EXCEPT ![c] = IF c \in Unknown THEN "answered" ELSE "inflight"]
    /\ UNCHANGED <<aborted, produced, results, owned, releases, notify, closed>>

\* A CANCEL record: the handler's signal aborts; its answer is still expected.
BeginCancel(c) ==
    /\ frame = "none" /\ ~closed /\ call[c] = "inflight" /\ ~aborted[c] /\ frame' = "begun"
    /\ aborted' = [aborted EXCEPT ![c] = TRUE]
    /\ UNCHANGED <<call, produced, answers, results, owned, releases, notify, closed>>

\* An ABANDON record: a result whose bytes are no longer fetched is released.
BeginAbandon(c) ==
    /\ frame = "none" /\ ~closed /\ c \in Announced /\ call[c] = "over" /\ frame' = "begun"
    /\ results' = [results EXCEPT ![c] = NoFetch]
    /\ ReleaseResult(c)
    /\ UNCHANGED <<call, aborted, produced, answers, owned, notify, closed>>

\* The handler throws.
HandlerThrows(c) ==
    /\ call[c] = "inflight" /\ call' = [call EXCEPT ![c] = "answered"] /\ Answered(c, FALSE)
    /\ UNCHANGED <<aborted, produced, results, owned, releases, closed>>

\* The handler returns what cannot cross: released, and an error answered.
HandlerMisanswers(c) ==
    /\ call[c] = "inflight" /\ call' = [call EXCEPT ![c] = "answered"] /\ Answered(c, FALSE)
    /\ produced' = [produced EXCEPT ![c] = TRUE] /\ ReleaseResult(c)
    /\ UNCHANGED <<aborted, results, owned, closed>>

\* The handler returns: answered, or released when the session is over.
\* Mutant: an answer to a session that is over is queued.
StillOpenAlways == TRUE
StillOpen == ~closed
HandlerReturns(c) ==
    /\ call[c] = "inflight" /\ produced' = [produced EXCEPT ![c] = TRUE]
    /\ IF StillOpen
       THEN call' = [call EXCEPT ![c] = "answered"] /\ Answered(c, TRUE) /\ UNCHANGED releases
       ELSE /\ call' = [call EXCEPT ![c] = "over"] /\ ReleaseResult(c)
            /\ UNCHANGED <<answers, notify, frame>>
    /\ UNCHANGED <<aborted, results, owned, closed>>

\* A frame that may be held waits while nothing is ready and something will be.
\* Mutant: what became ready while the frame's other requests settled is overlooked.
MustWaitBlindly == Waitable
MustWait == ~Ready /\ Waitable
Wait ==
    /\ frame = "begun" /\ MustWait /\ frame' = "waiting" /\ notify' = TRUE
    /\ UNCHANGED <<call, aborted, produced, answers, results, owned, releases, closed>>

\* Another request of the application settles while its frame waits.
OtherSettles ==
    /\ frame = "waiting" /\ frame' = "woken"
    /\ UNCHANGED <<call, aborted, produced, answers, results, owned, releases, notify, closed>>

\* finishHostFrame: the first n answers fit.  The next one is encoded and
\* stays; the application then lends an inbox that it fits.
\* Mutant: an answer that does not fit is dropped.
RestDropped(n) == SubSeq(answers, n + 2, Len(answers))
Rest(n) ==
    [i \in 1..(Len(answers) - n) |->
        IF i = 1 THEN [answers[n + 1] EXCEPT !.encoded = TRUE] ELSE answers[n + i]]
FinishFrame(n) ==
    /\ frame \in {"begun", "woken"} /\ n <= Len(answers)
    /\ n < Len(answers) => answers[n + 1].call \in Cramped /\ ~answers[n + 1].encoded
    /\ LET put == {answers[i] : i \in 1..n}
           refused == IF n < Len(answers) THEN {answers[n + 1]} ELSE {} IN
       /\ EncodeAnswers(put \union refused)
       /\ owned' = owned \union ({a.call : a \in {x \in put : x.ok}} \ Large)
       /\ call' = [c \in Calls |-> IF c \in {a.call : a \in put} THEN "over" ELSE call[c]]
    /\ answers' = Rest(n)
    /\ frame' = "none" /\ notify' = FALSE
    /\ UNCHANGED <<aborted, produced, releases, closed>>

\* A frame whose records were malformed is answered with the error.
FailFrame ==
    /\ frame = "failed" /\ frame' = "none"
    /\ UNCHANGED <<call, aborted, produced, answers, results, owned, releases, notify, closed>>

\* fetchResult: with its last piece a result becomes the application's.
Fetch(c) ==
    /\ ~closed /\ c \in Announced /\ call[c] = "over"
    /\ results' = [results EXCEPT ![c] = @ - 1]
    /\ owned' = IF results[c] = 1 THEN owned \union {c} ELSE owned
    /\ UNCHANGED <<call, aborted, produced, answers, releases, frame, notify, closed>>

\* closeHostChannel, when the run ends or is aborted, whatever the frame does:
\* handlers are told, every answer and every result not taken is released.
CloseHostChannel ==
    /\ ~closed /\ closed' = TRUE
    /\ aborted' = [c \in Calls |-> aborted[c] \/ call[c] = "inflight"]
    /\ LET queued == {a.call : a \in {x \in ToSet(answers) : x.ok}} IN
       releases' = [c \in Calls |-> releases[c] + (IF c \in queued THEN 1 ELSE 0) + (IF c \in Announced THEN 1 ELSE 0)]
    /\ call' = [c \in Calls |-> IF call[c] = "answered" THEN "over" ELSE call[c]]
    /\ answers' = <<>> /\ results' = [c \in Calls |-> NoFetch] /\ Wake
    /\ UNCHANGED <<produced, owned>>

Next ==
    \/ BeginFrame("begun") \/ BeginFrame("failed") \/ Wait \/ OtherSettles \/ FailFrame
    \/ \E c \in Calls :
          \/ BeginPost(c) \/ PostSettles(c) \/ BeginCall(c) \/ BeginCancel(c) \/ BeginAbandon(c) \/ Fetch(c)
          \/ HandlerThrows(c) \/ HandlerMisanswers(c) \/ HandlerReturns(c)
    \/ \E n \in 0..Len(answers) : FinishFrame(n)
    \/ CloseHostChannel

\* Handlers return, and the application keeps shipping frames that can be read.
Fairness ==
    /\ \A c \in Calls : WF_vars(HandlerReturns(c))
    /\ SF_vars(BeginFrame("begun")) /\ WF_vars(\E n \in 0..Len(answers) : FinishFrame(n))
    /\ WF_vars(FailFrame)

Spec == Init /\ [][Next]_vars
FairSpec == Spec /\ Fairness

-----------------------------------------------------------------------------
Queued(c, ok) == \E i \in DOMAIN answers : answers[i].call = c /\ answers[i].ok = ok

TypeOK ==
    /\ call \in [Calls -> {"new", "inflight", "posted", "answered", "over"}]
    /\ results \in [Calls -> 0..Pieces] /\ owned \subseteq Calls
    /\ \A c \in Calls : call[c] = "answered" /\ ~closed => Queued(c, TRUE) \/ Queued(c, FALSE)
    /\ frame \in {"none", "begun", "waiting", "woken", "failed"}

\* What a handler returned is always someone's: it waits in the answers, or is
\* announced and being fetched, or the application holds it, or it has been
\* released; and it is never released twice nor taken from the application.
ResultAccounted ==
    \A c \in Calls : produced[c] =>
        \/ ~closed /\ Queued(c, TRUE) /\ releases[c] = 0 /\ c \notin owned
        \/ c \in Announced /\ ~Queued(c, TRUE) /\ releases[c] = 0 /\ c \notin owned
        \/ c \in owned /\ c \notin Announced /\ releases[c] = 0
        \/ releases[c] = 1 /\ c \notin owned /\ c \notin Announced /\ ~Queued(c, TRUE)

\* A result is released once at most.
ReleasedOnce == \A c \in Calls : releases[c] <= 1

\* A frame waits only while nothing is ready for it, registered to be woken.
NoLostWake == frame = "waiting" => notify /\ (closed \/ ~Ready)

\* What a handler of the page returned has one owner: the queue of answers, an
\* announced result, the application, or the one release; and no frame waits
\* while there is something to say to it.
CallsSound == TypeOK /\ ResultAccounted /\ NoLostWake

\* Every call is answered unless the session ends.
CallsAnswered == \A c \in Calls : call[c] \in {"inflight", "answered"} ~> call[c] = "over" \/ closed
=============================================================================
