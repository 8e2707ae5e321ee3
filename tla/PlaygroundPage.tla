--------------------------- MODULE PlaygroundPage ---------------------------
(***************************************************************************)
(* The playground page (editors/playground/src/app.js) and its compiler    *)
(* Worker (luajit-worker.js over host.mjs createCompiler): checks after an *)
(* edit, hovers, compiles and runs.  A program is the number of edits the  *)
(* buffer has had; what diagnostics and output say is left out.            *)
(***************************************************************************)
EXTENDS Naturals, Integers, Sequences, SequencesExt

CONSTANTS
    Clean,          \* versions of the buffer that compile
    Cap,            \* requests the Worker lets wait
    MaxEdits, MaxCalls, MaxFaults

VARIABLES
    ready,          \* the Worker: "none", "starting", "ready", or "failed" to boot
    waiting,        \* requests that wait for it to be ready
    pending,        \* ids of those posted and not answered
    posted,         \* to the Worker
    queued, busy,   \* the Worker's queue, and the request its compiler has
    replies,        \* from the Worker
    activated, buffer, timer, calls, faults,
    page            \* checkGeneration, diagnostics, output, and the compile or run under way

wire == <<posted, queued, busy, replies>>
vars == <<ready, waiting, pending, wire, activated, buffer, timer, calls, faults, page>>

NoReq == [kind |-> "none"]
Init ==
    /\ ready = "none" /\ waiting = <<>> /\ pending = {} /\ posted = <<>> /\ queued = <<>> /\ busy = NoReq
    /\ replies = <<>> /\ activated = "no" /\ buffer = 0 /\ timer = FALSE /\ calls = 0 /\ faults = 0
    /\ page = [checkGen |-> 0, diag |-> -1, output |-> <<"none", 0>>, compile |-> "idle", src |-> 0]

-----------------------------------------------------------------------------
\* What checkNow, compileNow and a hover do with their answer.
Settled(p, r, ok) ==
    CASE r.kind = "check" /\ ok /\ r.tag = p.checkGen -> [p EXCEPT !.diag = r.src, !.output = <<"checked", r.src>>]
      [] r.kind = "compile" /\ ok -> [p EXCEPT !.diag = r.src,
            !.output = IF r.src \in Clean THEN @ ELSE <<"refused", r.src>>,
            !.compile = IF r.src \in Clean THEN "running" ELSE "idle"]
      [] r.kind = "compile" /\ ~ok -> [p EXCEPT !.output = <<"failed", r.src>>, !.compile = "idle"]
      [] OTHER -> p
Fail(p, r) == Settled(p, r, FALSE)

\* request: posted to a ready Worker, kept for one that starts, refused by
\* one that did not.
Request(r, p) ==
    /\ calls < MaxCalls /\ calls' = calls + 1
    /\ CASE ready = "ready" -> /\ posted' = Append(posted, r) /\ pending' = pending \cup {r.id}
                               /\ page' = p /\ UNCHANGED <<ready, waiting>>
         [] ready = "failed" -> page' = Fail(p, r) /\ UNCHANGED <<ready, waiting, pending, posted>>
         [] OTHER -> ready' = "starting" /\ waiting' = Append(waiting, r) /\ page' = p /\ UNCHANGED <<pending, posted>>
    /\ UNCHANGED <<queued, busy, replies>>
Req(kind, tag) == [id |-> calls, kind |-> kind, src |-> buffer, tag |-> tag]

\* Mutant: a check does not take a new generation.
SameGeneration == page.checkGen
NextGeneration == page.checkGen + 1
\* checkNow, as its timer fires or an option changes.
CheckNow(fired) ==
    /\ (fired => timer) /\ timer' = IF fired THEN FALSE ELSE timer
    /\ Request(Req("check", NextGeneration), [page EXCEPT !.checkGen = NextGeneration])
    /\ UNCHANGED <<activated, buffer, faults>>
Hover == Request(Req("hover", 0), page) /\ UNCHANGED <<activated, buffer, timer, faults>>
\* compileNow; the check that was to come is dropped.
CompileNow ==
    /\ page.compile = "idle" /\ timer' = FALSE
    /\ Request(Req("compile", 0), [page EXCEPT !.checkGen = @ + 1, !.compile = "compiling", !.src = buffer,
                                               !.output = <<"none", buffer>>])
    /\ UNCHANGED <<activated, buffer, faults>>

\* An edit, by the reader or by loading an example.
Edit(loads) ==
    /\ buffer < MaxEdits /\ buffer' = buffer + 1 /\ timer' = TRUE
    /\ page' = IF loads THEN [page EXCEPT !.output = <<"none", 0>>] ELSE page
    /\ UNCHANGED <<ready, waiting, pending, wire, activated, calls, faults>>

\* activateCompiler: the Worker is started, and a check follows.
Activate ==
    /\ activated = "no" /\ activated' = IF ready = "failed" THEN "done" ELSE "waiting"
    /\ ready' = IF ready = "none" THEN "starting" ELSE ready
    /\ UNCHANGED <<waiting, pending, wire, buffer, timer, calls, faults, page>>
ActivatedCheck ==
    /\ activated = "waiting" /\ ready = "ready" /\ activated' = "done"
    /\ Request(Req("check", NextGeneration), [page EXCEPT !.checkGen = NextGeneration])
    /\ UNCHANGED <<buffer, timer, faults>>

-----------------------------------------------------------------------------
\* The Worker's messages about itself.
Ready ==
    /\ ready = "starting" /\ ready' = "ready" /\ posted' = posted \o waiting /\ waiting' = <<>>
    /\ pending' = pending \cup {waiting[i].id : i \in DOMAIN waiting}
    /\ UNCHANGED <<queued, busy, replies, activated, buffer, timer, calls, faults, page>>
BootError ==
    /\ ready = "starting" /\ faults < MaxFaults /\ faults' = faults + 1 /\ ready' = "failed"
    /\ page' = FoldLeft(Fail, [page EXCEPT !.output = <<"failed", 0>>], waiting) /\ waiting' = <<>>
    /\ activated' = IF activated = "waiting" THEN "done" ELSE activated
    /\ UNCHANGED <<pending, wire, buffer, timer, calls>>

\* closeCompiler: everything asked is answered, and the Worker goes.
\* Mutant: only the requests that wait for the Worker are answered.
AnsweredWaiting(all) == waiting
Answered(all) == all
\* Mutant: the answers of a Worker that is gone are still heard.
SilencedNone == replies
Silenced == <<>>
Close(p) ==
    LET all == waiting \o [i \in DOMAIN replies |-> replies[i].of] \o <<busy>> \o queued \o posted
    IN /\ ready' = "none" /\ waiting' = <<>> /\ pending' = {} /\ posted' = <<>> /\ queued' = <<>>
       /\ busy' = NoReq /\ replies' = Silenced /\ page' = FoldLeft(Fail, p, Answered(all))
       /\ activated' = IF activated = "waiting" THEN "done" ELSE activated
       /\ UNCHANGED <<buffer, timer, calls>>
WorkerError ==
    /\ ready # "none" /\ faults < MaxFaults /\ faults' = faults + 1 /\ Close(page)

\* The program's Worker: a result, an error, the deadline, or Stop.
Ended(p) == [p EXCEPT !.output = <<"ran", p.src>>, !.compile = "idle"]
ProgramEnds ==
    /\ page.compile = "running" /\ page' = Ended(page)
    /\ UNCHANGED <<ready, waiting, pending, wire, activated, buffer, timer, calls, faults>>
\* Stop while it compiles.
Stop ==
    /\ page.compile = "compiling" /\ Close(page) /\ UNCHANGED faults
PageHide ==
    /\ faults < MaxFaults /\ faults' = faults + 1
    /\ Close(IF page.compile = "running" THEN Ended(page) ELSE page)

-----------------------------------------------------------------------------
\* The Worker's onmessage: a check supersedes the checks that wait last.
\* Mutant: a superseded check is not answered.
AnswersStaleNone(stale) == <<>>
AnswersStale(stale) == [i \in DOMAIN stale |-> [of |-> stale[i], ok |-> FALSE, cancelled |-> TRUE]]
\* Mutant: the limit is looked at one request late.
FullLate(q) == Len(q) > Cap
Full(q) == Len(q) >= Cap
Kept(q) == SubSeq(q, 1, SelectLastInSeq(q, LAMBDA r : r.kind # "check"))
Receive ==
    /\ posted # <<>> /\ posted' = Tail(posted)
    /\ LET r == Head(posted)
           kept == IF r.kind = "check" THEN Kept(queued) ELSE queued
           stale == Reverse(SubSeq(queued, Len(kept) + 1, Len(queued)))
           refused == IF Full(kept) THEN <<[of |-> r, ok |-> FALSE, cancelled |-> FALSE]>> ELSE <<>>
       IN /\ replies' = replies \o AnswersStale(stale) \o refused
          /\ IF Full(kept) THEN queued' = kept /\ UNCHANGED busy
             ELSE IF busy = NoReq THEN busy' = r /\ queued' = kept
             ELSE queued' = Append(kept, r) /\ UNCHANGED busy
    /\ UNCHANGED <<ready, waiting, pending, activated, buffer, timer, calls, faults, page>>

\* drain: the compiler's answer, and the next request.
\* Mutant: the newest request first.
NextLast == Len(queued)
NextUp == 1
CompilerAnswers(ok) ==
    /\ busy # NoReq /\ replies' = Append(replies, [of |-> busy, ok |-> ok, cancelled |-> FALSE])
    /\ IF queued = <<>> THEN busy' = NoReq /\ UNCHANGED queued
       ELSE busy' = queued[NextUp] /\ queued' = RemoveAt(queued, NextUp)
    /\ (~ok => faults < MaxFaults) /\ faults' = IF ok THEN faults ELSE faults + 1
    /\ UNCHANGED <<ready, waiting, pending, posted, activated, buffer, timer, calls, page>>

\* The page's onmessage.
Arrive ==
    /\ replies # <<>> /\ replies' = Tail(replies)
    /\ LET a == Head(replies) IN
       IF a.of.id \in pending THEN page' = Settled(page, a.of, a.ok) /\ pending' = pending \ {a.of.id}
       ELSE UNCHANGED <<page, pending>>
    /\ UNCHANGED <<ready, waiting, posted, queued, busy, activated, buffer, timer, calls, faults>>

Next ==
    \/ (\E fired \in BOOLEAN : CheckNow(fired)) \/ Hover \/ CompileNow \/ (\E loads \in BOOLEAN : Edit(loads)) \/ Activate \/ ActivatedCheck
    \/ Ready \/ BootError \/ WorkerError \/ ProgramEnds \/ Stop \/ PageHide
    \/ Receive \/ (\E ok \in BOOLEAN : CompilerAnswers(ok)) \/ Arrive
Spec ==
    /\ Init /\ [][Next]_vars
    /\ WF_vars(Ready \/ BootError) /\ WF_vars(Receive) /\ WF_vars(\E ok \in BOOLEAN : CompilerAnswers(ok))
    /\ WF_vars(Arrive) /\ WF_vars(ProgramEnds)

-----------------------------------------------------------------------------
All == posted \o queued \o (IF busy = NoReq THEN <<>> ELSE <<busy>>) \o [i \in DOMAIN replies |-> replies[i].of]

\* Requests wait only for a Worker that starts, and are posted only to one
\* that is ready.
TypeOK ==
    /\ ready \in {"none", "starting", "ready", "failed"} /\ page.compile \in {"idle", "compiling", "running"}
    /\ (waiting # <<>> => ready = "starting") /\ (All # <<>> => ready = "ready")

\* Every request that was posted is with the Worker or answered, once: none
\* is lost in its queue.
PendingServed ==
    /\ pending = {All[i].id : i \in DOMAIN All} /\ \A i, j \in DOMAIN All : All[i].id = All[j].id => i = j

\* The Worker's queue stays within its limit.
QueueBounded == Len(queued) <= Cap

\* Only an outdated check is superseded: the newest one is answered.
SupersededOlder == \A i \in DOMAIN replies :
    replies[i].cancelled => replies[i].of.kind = "check" /\ replies[i].of.tag < page.checkGen

\* A page that compiles has its compile on the way.
CompileOwned == page.compile = "compiling" =>
    \E r \in ToSet(All \o waiting) : r.kind = "compile" /\ r.src = page.src

\* Diagnostics of an older program never replace those of a newer one.
DiagForward == [][page'.diag >= page.diag]_vars

\* The button comes back.
ButtonBack == page.compile # "idle" ~> page.compile = "idle"

\* Editing invalidates what the last run showed: the panel shows a run of an
\* older program only until the check of the new one answers.
EditInvalidates == page.output[1] = "ran" /\ page.output[2] # buffer =>
    timer \/ \E r \in ToSet(All \o waiting) : r.kind = "check" /\ r.tag = page.checkGen
=============================================================================
