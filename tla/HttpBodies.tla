----------------------------- MODULE HttpBodies -----------------------------
(***************************************************************************)
(* HTTP requests of a browser application (performHttpEffect,              *)
(* runtime/wasm/app-runtime.mjs).  A request awaits its response and then  *)
(* each chunk of its body, and may time out or be aborted with the run.    *)
(* A body too large for an answer's text is retained under a number the    *)
(* application reads or releases it by.  Chunks are of one unit.           *)
(***************************************************************************)
EXTENDS Naturals, FiniteSets, FiniteSetsExt

CONSTANTS
    Requests,       \* the requests the application may make, each once
    Retaining,      \* those with memoryResponse
    Limit           \* limits.maxResponseBytes, and the requests' maxBytes

VARIABLES
    stage,          \* "new", "fetching", "reading", "over", per request
    length,         \* bytes read so far
    answer,         \* "none", "ok" or "error"
    aborted,        \* requests whose controller is aborted
    listening,      \* requests that listen to the run's signal
    timed,          \* requests whose timeout is armed
    bodies,         \* httpBodies, by the request that retained it
    taken,          \* bodies read by the application
    signalled       \* has the run ended or been cancelled

vars == <<stage, length, answer, aborted, listening, timed, bodies, taken, signalled>>

Active == {r \in Requests : stage[r] \in {"fetching", "reading"}}
Retained == MapThenSumSet(LAMBDA r : length[r], bodies)

Init ==
    /\ stage = [r \in Requests |-> "new"] /\ length = [r \in Requests |-> 0]
    /\ answer = [r \in Requests |-> "none"]
    /\ aborted = {} /\ listening = {} /\ timed = {} /\ bodies = {} /\ taken = {} /\ signalled = FALSE

\* The finally block of a request, with its answer.
\* Mutant: the timeout of a request that ended is left armed.
CleanupTimed(r) == listening' = listening \ {r} /\ UNCHANGED timed
\* Mutant: the listener of a request that ended is left on the run's signal.
CleanupHeard(r) == timed' = timed \ {r} /\ UNCHANGED listening
Cleanup(r) == listening' = listening \ {r} /\ timed' = timed \ {r}
End(r, a) == stage' = [stage EXCEPT ![r] = "over"] /\ answer' = [answer EXCEPT ![r] = a] /\ Cleanup(r)

\* Mutant: a request of an aborted run is started.
RefusedNever == FALSE
Refused == signalled
\* With a timeout or without; refused at once by an aborted run.
Fetch(r, timeout) ==
    /\ stage[r] = "new"
    /\ IF Refused THEN End(r, "error")
       ELSE /\ stage' = [stage EXCEPT ![r] = "fetching"] /\ listening' = listening \union {r}
            /\ timed' = IF timeout THEN timed \union {r} ELSE timed
            /\ UNCHANGED answer
    /\ UNCHANGED <<length, aborted, bodies, taken, signalled>>
TimesOut(r) ==
    /\ r \in timed /\ timed' = timed \ {r} /\ aborted' = aborted \union {r}
    /\ UNCHANGED <<stage, length, answer, listening, bodies, taken, signalled>>

\* fetch or a read rejects: of itself, or because the controller was aborted.
Rejects(r) ==
    /\ r \in Active /\ End(r, "error")
    /\ UNCHANGED <<length, aborted, bodies, taken, signalled>>
\* The headers declare a length: past the limit it is refused at once.
Responds(r, tooLong) ==
    /\ stage[r] = "fetching" /\ r \notin aborted
    /\ IF tooLong THEN End(r, "error")
       ELSE stage' = [stage EXCEPT ![r] = "reading"] /\ UNCHANGED <<answer, listening, timed>>
    /\ UNCHANGED <<length, aborted, bodies, taken, signalled>>
ReadChunk(r) ==
    /\ stage[r] = "reading" /\ r \notin aborted /\ length' = [length EXCEPT ![r] = @ + 1]
    /\ IF length'[r] > Limit THEN End(r, "error") ELSE UNCHANGED <<stage, answer, listening, timed>>
    /\ UNCHANGED <<aborted, bodies, taken, signalled>>

\* The last read: a body that was complete before the abort may still be read.
\* Mutant: the signal is not looked at again after the last read.
MayFinishAlways == TRUE
MayFinish == ~signalled
\* Mutant: a body is compared with the limit by itself.
FitsAlone(r) == length[r] <= Limit
Fits(r) == Retained + length[r] <= Limit
Finish(r) ==
    /\ stage[r] = "reading"
    /\ IF MayFinish /\ (r \in Retaining => Fits(r))
       THEN End(r, "ok") /\ bodies' = IF r \in Retaining THEN bodies \union {r} ELSE bodies
       ELSE End(r, "error") /\ UNCHANGED bodies
    /\ UNCHANGED <<length, aborted, taken, signalled>>

\* read-body, with or without a lease of the right extent, and release-body.
ReadBody(r, ok) ==
    /\ r \in bodies /\ ~signalled /\ bodies' = bodies \ {r}
    /\ taken' = IF ok THEN taken \union {r} ELSE taken
    /\ UNCHANGED <<stage, length, answer, aborted, listening, timed, signalled>>
ReleaseBody(r) ==
    /\ r \in bodies /\ ~signalled /\ bodies' = bodies \ {r}
    /\ UNCHANGED <<stage, length, answer, aborted, listening, timed, taken, signalled>>

\* The run ends: its signal aborts every request that listens, and the bodies go.
EndRun ==
    /\ ~signalled /\ signalled' = TRUE /\ aborted' = aborted \union listening /\ bodies' = {}
    /\ UNCHANGED <<stage, length, answer, listening, timed, taken>>

Next ==
    \/ EndRun
    \/ \E r \in Requests :
          \/ \E b \in BOOLEAN : Fetch(r, b) \/ Responds(r, b) \/ ReadBody(r, b)
          \/ TimesOut(r) \/ Rejects(r) \/ ReadChunk(r) \/ Finish(r) \/ ReleaseBody(r)

Spec == Init /\ [][Next]_vars

-----------------------------------------------------------------------------
TypeOK ==
    /\ stage \in [Requests -> {"new", "fetching", "reading", "over"}] /\ length \in [Requests -> 0..(Limit + 1)]
    /\ answer \in [Requests -> {"none", "ok", "error"}] /\ bodies \subseteq {r \in Retaining : answer[r] = "ok"}
    /\ listening = Active /\ taken \cap bodies = {}

\* The retained bodies together stay within the response limit.
RetainedBounded == Retained <= Limit

\* Nothing is retained for a run that is over: nobody would release it.
NoneRetained == signalled => bodies = {}

\* A timeout is armed only for a request that still runs.
TimeoutsOwned == timed \subseteq Active

\* The end of the run reaches every request that runs, and none starts after it.
AbortReaches == signalled => Active \subseteq aborted
=============================================================================
