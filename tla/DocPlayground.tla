--------------------------- MODULE DocPlayground ---------------------------
(***************************************************************************)
(* The playgrounds of a documentation page                                 *)
(* (editors/playground/src/doc-app.js): editors that share one compiler    *)
(* Worker through a serialized queue, show the Lua of their program and    *)
(* run it.  A program is the editor and the number of edits it has had;    *)
(* the tooltips, styles and messages are left out.                         *)
(***************************************************************************)
EXTENDS Naturals, Sequences, SequencesExt

CONSTANTS
    Editors,
    Clean,          \* versions of a program that check without an error
    MaxEdits,       \* edits of an editor
    MaxCalls,       \* operations the editors ask of the compiler
    MaxRuns,        \* presses of Run that start one
    MaxFaults       \* Workers and requests that fail, editors and pages that go

ASSUME DocAssumption == {MaxEdits, MaxCalls, MaxRuns, MaxFaults} \subseteq Nat /\ Clean \subseteq Nat

VARIABLES
    ready,          \* of the compiler Worker: "none", "starting" or "ready"
    generation, lastSource,
    queue,          \* operations that wait for their turn
    active,         \* the operation that has it, or NoOp
    parse,          \* the Worker's lastResults: what a hover is answered from
    hovered,        \* the last hover answered: for which program, from which
    faults, calls, runs,
    source, timer,
    editor          \* of each: view, diag, compiled, panel, tab, generations, controller

docVars == <<source, timer, editor>>
vars == <<ready, generation, lastSource, queue, active, parse, hovered, faults, calls, runs, docVars>>

None == <<>>
NoOp == [kind |-> "none"]
Program(e) == <<e, source[e]>>
IsClean(p) == p[2] \in Clean
Busy == (IF active = NoOp THEN <<>> ELSE <<active>>) \o queue

\* connectedCallback: a view of the page's program.
Connected(ed) ==
    [ed EXCEPT !.view = TRUE, !.diag = -1, !.compiled = None, !.panel = None, !.tab = "nupp"]

Init ==
    /\ ready = "none" /\ generation = 0 /\ lastSource = None /\ queue = <<>> /\ active = NoOp
    /\ parse = None /\ hovered = None /\ faults = 0 /\ calls = 0 /\ runs = 0
    /\ source = [e \in Editors |-> 0] /\ timer = [e \in Editors |-> FALSE]
    /\ editor = [e \in Editors |-> Connected([view |-> TRUE, diag |-> -1, compiled |-> None, panel |-> None,
                   tab |-> "nupp", checkGen |-> 0, luaGen |-> 0, ctl |-> 0, prog |-> None])]

\* CompilerClient.run: behind whatever was asked for before.
Enqueue(e, kind, tag) ==
    /\ calls < MaxCalls /\ calls' = calls + 1
    /\ queue' = Append(queue, [kind |-> kind, e |-> e, src |-> Program(e), gen |-> generation, tag |-> tag])

-----------------------------------------------------------------------------
\* What an editor does with an operation that failed or was cancelled.
Failed(eds, op) ==
    CASE op.kind = "lua" /\ op.tag = eds[op.e].luaGen -> [eds EXCEPT ![op.e].panel = <<"error">>]
      [] op.kind = "run" /\ op.tag = eds[op.e].ctl -> [eds EXCEPT ![op.e].ctl = 0]
      [] OTHER -> eds

\* What it does with one that succeeded.
Shown(ed, op) == [ed EXCEPT !.diag = op.src[2], !.compiled = IF IsClean(op.src) THEN op.src ELSE @]
Done(ed, op) ==
    CASE op.kind = "check" /\ op.tag = ed.checkGen /\ ed.view -> [ed EXCEPT !.diag = op.src[2]]
      [] op.kind = "lua" /\ op.tag = ed.luaGen /\ ed.view ->
            [Shown(ed, op) EXCEPT !.panel = IF IsClean(op.src) THEN op.src ELSE <<"diagnostics">>]
      [] op.kind = "run" /\ op.tag = ed.ctl ->
            [Shown(ed, op) EXCEPT !.prog = IF IsClean(op.src) THEN op.src ELSE None,
                                  !.ctl = IF IsClean(op.src) THEN @ ELSE 0]
      [] OTHER -> ed

\* close: what is asked is answered, what waits is cancelled as its turn
\* comes, all before the page does anything else.
\* Mutant: what was posted to the Worker is not answered.
AnsweredNone == <<>>
Answered == IF active = NoOp THEN <<>> ELSE <<active>>
\* Mutant: what waits is left for the next Worker.
CancelledNone == <<>>
Cancelled == queue
\* Mutant: the last source checked is remembered for the next Worker.
ForgottenKept == lastSource
Forgotten == None
Close(eds) ==
    /\ generation' = generation + 1 /\ ready' = "none" /\ parse' = None /\ lastSource' = Forgotten
    /\ active' = NoOp /\ queue' = SelectSeq(queue, LAMBDA op : op \notin ToSet(Cancelled))
    /\ editor' = FoldLeft(Failed, eds, Answered \o Cancelled)
    /\ UNCHANGED <<hovered, calls, source>>

\* The next operation's turn; start makes a Worker when there is none.
\* Mutant: operations overtake each other.
LastTurn == Len(queue)
Turn == 1
StartOp ==
    /\ active = NoOp /\ queue # <<>>
    /\ LET op == queue[Turn]
           known == op.kind = "hover" /\ lastSource = op.src
       IN active' = [kind |-> op.kind, e |-> op.e, src |-> op.src, gen |-> op.gen, tag |-> op.tag,
                     stage |-> IF op.kind = "hover" /\ ~known THEN "check" ELSE op.kind]
    /\ queue' = RemoveAt(queue, Turn) /\ ready' = IF ready = "none" THEN "starting" ELSE ready
    /\ UNCHANGED <<generation, lastSource, parse, hovered, faults, calls, runs, docVars>>

Boot ==
    /\ ready = "starting" /\ ready' = "ready"
    /\ UNCHANGED <<generation, lastSource, queue, active, parse, hovered, faults, calls, runs, docVars>>
\* A boot-error, or the Worker's error event.
WorkerFails ==
    /\ ready # "none" /\ faults < MaxFaults /\ faults' = faults + 1
    /\ Close(editor) /\ UNCHANGED <<runs, timer>>

\* The Worker's answer; a check or a compile of a clean program is what its
\* session keeps for hovers.
Answer ==
    /\ active # NoOp /\ ready = "ready"
    /\ LET op == active IN
       \/ op.stage = "hover" /\ hovered' = <<op.src, parse>> /\ active' = NoOp /\ UNCHANGED <<parse, lastSource, editor>>
       \/ /\ op.stage # "hover" /\ parse' = IF IsClean(op.src) THEN op.src ELSE parse
          /\ lastSource' = IF op.stage = "check" THEN op.src ELSE lastSource
          /\ active' = IF op.kind = "hover" THEN [op EXCEPT !.stage = "hover"] ELSE NoOp
          /\ editor' = [editor EXCEPT ![op.e] = Done(@, op)] /\ UNCHANGED hovered
    /\ UNCHANGED <<ready, generation, queue, faults, calls, runs, source, timer>>

\* Or an error: a request the Worker refuses or the compiler fails.
AnswerError ==
    /\ active # NoOp /\ ready = "ready" /\ faults < MaxFaults /\ faults' = faults + 1
    /\ active' = NoOp /\ editor' = Failed(editor, active)
    /\ UNCHANGED <<ready, generation, lastSource, queue, parse, hovered, calls, runs, source, timer>>

-----------------------------------------------------------------------------
\* The editors.
rest == <<ready, generation, lastSource, active, parse, hovered, faults>>

\* An edit: a check is scheduled, and the compiled program is dropped.
Invalidated(ed) == [ed EXCEPT !.compiled = None, !.panel = None, !.tab = "nupp"]
Edit(e) ==
    /\ editor[e].view /\ source[e] < MaxEdits
    /\ source' = [source EXCEPT ![e] = @ + 1] /\ timer' = [timer EXCEPT ![e] = TRUE]
    /\ editor' = [editor EXCEPT ![e] = Invalidated(@)]
    /\ UNCHANGED <<rest, queue, calls, runs>>
Check(e) ==
    /\ timer[e] /\ timer' = [timer EXCEPT ![e] = FALSE]
    /\ editor' = [editor EXCEPT ![e].checkGen = @ + 1] /\ Enqueue(e, "check", editor[e].checkGen + 1)
    /\ UNCHANGED <<rest, runs, source>>
Hover(e) == editor[e].view /\ Enqueue(e, "hover", 0) /\ UNCHANGED <<rest, runs, docVars>>

ActivateTab(e) ==
    /\ editor[e].view /\ editor[e].tab = "lua" /\ editor' = [editor EXCEPT ![e].tab = "nupp"]
    /\ UNCHANGED <<rest, queue, calls, runs, source, timer>>
ShowLua(e) ==
    LET ed == editor[e]
        opened == [ed EXCEPT !.tab = "lua"] IN
    /\ ed.view
    /\ \/ ed.compiled = Program(e) /\ editor' = [editor EXCEPT ![e] = opened] /\ UNCHANGED <<queue, calls>>
       \/ /\ ed.compiled # Program(e) /\ Enqueue(e, "lua", ed.luaGen + 1)
          /\ editor' = [editor EXCEPT ![e] = [opened EXCEPT !.luaGen = @ + 1, !.panel = <<"compiling">>]]
    /\ UNCHANGED <<rest, runs, source, timer>>

\* Run: with what is compiled, or after compiling.
Run(e) ==
    LET ed == editor[e]
        started == [ed EXCEPT !.ctl = runs + 1] IN
    /\ ed.view /\ ed.ctl = 0 /\ runs < MaxRuns /\ runs' = runs + 1
    /\ \/ ed.compiled = Program(e) /\ editor' = [editor EXCEPT ![e] = [started EXCEPT !.prog = Program(e)]]
          /\ UNCHANGED <<queue, calls>>
       \/ ed.compiled # Program(e) /\ editor' = [editor EXCEPT ![e] = started] /\ Enqueue(e, "run", runs + 1)
    /\ UNCHANGED <<rest, source, timer>>
\* Stop: the program is terminated, and the compiler with everyone's requests.
Stopped(ed) == IF ed.prog = None THEN ed ELSE [ed EXCEPT !.prog = None, !.ctl = 0]
Stop(e) ==
    /\ editor[e].view /\ editor[e].ctl # 0
    /\ Close([editor EXCEPT ![e] = Stopped(@)]) /\ UNCHANGED <<runs, timer, faults>>
\* runGenerated: a result, a failure or the deadline.
ProgramEnds(e) ==
    /\ editor[e].prog # None /\ editor' = [editor EXCEPT ![e] = Stopped(@)]
    /\ UNCHANGED <<rest, queue, calls, runs, source, timer>>

\* Mutant: an editor that goes does not stop its program.
GoneRunning(ed) == [ed EXCEPT !.view = FALSE, !.ctl = 0, !.checkGen = @ + 1, !.luaGen = @ + 1]
Gone(ed) ==
    [ed EXCEPT !.view = FALSE, !.ctl = 0, !.prog = None, !.checkGen = @ + 1, !.luaGen = @ + 1]
Disconnect(e) ==
    /\ editor[e].view /\ faults < MaxFaults /\ faults' = faults + 1
    /\ editor' = [editor EXCEPT ![e] = Gone(@)] /\ timer' = [timer EXCEPT ![e] = FALSE]
    /\ UNCHANGED <<ready, generation, lastSource, active, parse, hovered, queue, calls, runs, source>>
Connect(e) ==
    /\ ~editor[e].view /\ editor' = [editor EXCEPT ![e] = Connected(@)] /\ source' = [source EXCEPT ![e] = 0]
    /\ UNCHANGED <<rest, queue, calls, runs, timer>>
PageHide ==
    /\ faults < MaxFaults /\ faults' = faults + 1
    /\ Close([e \in Editors |-> Stopped(editor[e])]) /\ UNCHANGED <<runs, timer>>

Next ==
    \/ StartOp \/ Boot \/ WorkerFails \/ Answer \/ AnswerError \/ PageHide
    \/ \E e \in Editors : \/ Edit(e) \/ Check(e) \/ Hover(e) \/ ActivateTab(e) \/ ShowLua(e) \/ Run(e) \/ Stop(e)
                          \/ ProgramEnds(e) \/ Disconnect(e) \/ Connect(e)
Spec ==
    /\ Init /\ [][Next]_vars
    /\ WF_vars(StartOp) /\ WF_vars(Boot) /\ WF_vars(Answer) /\ \A e \in Editors : WF_vars(ProgramEnds(e))

-----------------------------------------------------------------------------
\* Operations, programs and generations; an editor off the page runs nothing.
TypeOK ==
    /\ ready \in {"none", "starting", "ready"} /\ (active # NoOp => ready # "none")
    /\ \A e \in Editors : ~editor[e].view => editor[e].prog = None /\ ~timer[e]

\* What a close cancelled never reaches the Worker that replaces the old one.
QueueCurrent == \A i \in DOMAIN Busy : Busy[i].gen = generation

\* A program remembered as checked was checked by this Worker: there is a
\* parse for a hover to read.
ParseForLast == lastSource # None /\ IsClean(lastSource) => parse # None

\* The editor's button says Stop only while a program runs or is on its way
\* through the queue: no Stop, failed Worker or page change strands it.
RunOwned == \A e \in Editors : editor[e].ctl # 0 =>
    editor[e].prog # None \/ \E i \in DOMAIN Busy : Busy[i].kind = "run" /\ Busy[i].tag = editor[e].ctl

\* A Lua tab that says it compiles has its compile on the way.
CompilingOwned == \A e \in Editors : editor[e].view /\ editor[e].panel = <<"compiling">> =>
    \E i \in DOMAIN Busy : Busy[i].kind = "lua" /\ Busy[i].e = e /\ Busy[i].tag = editor[e].luaGen

\* Diagnostics of an older program never replace those of a newer one.
DiagForward == [][\A e \in Editors : editor'[e].diag >= editor[e].diag \/ (~editor[e].view /\ editor'[e].view)]_vars

\* A run ends: the button comes back.
RunEnds == \A e \in Editors : editor[e].ctl # 0 ~> editor[e].ctl = 0

\* A hover is answered from the parse of the program it was asked about.
HoverOwn == hovered # None => hovered[2] \in {None, hovered[1]}

\* The Lua tab never shows the Lua of another version of the program.
LuaFresh == \A e \in Editors : editor[e].tab = "lua" /\ Len(editor[e].panel) = 2 =>
    editor[e].panel = Program(e)

\* The Lua tab of a program that is compiled shows it.
LuaReused == \A e \in Editors : editor[e].tab = "lua" /\ editor[e].compiled = Program(e) => editor[e].panel # None
=============================================================================
