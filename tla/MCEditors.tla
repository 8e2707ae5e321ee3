----------------------------- MODULE MCEditors -----------------------------
(***************************************************************************)
(* The playgrounds of the documentation, the playground page and the       *)
(* language clients of the editor extension, on small instances.  They     *)
(* share no state here: a behaviour is one of one component, named by      *)
(* `part`, and the others stay as they start.                              *)
(***************************************************************************)
EXTENDS DocPlayground

CONSTANTS f1, f2

VARIABLES
    part,
    pageReady, waiting, pending, posted, queued, busy, replies, activated, buffer, delay, asked, pageFaults, page,
    workspace, clients, client, restarts, changes, stops, events, extension

pageVars == <<pageReady, waiting, pending, posted, queued, busy, replies, activated, buffer, delay, asked, pageFaults, page>>
clientVars == <<workspace, clients, client, restarts, changes, stops, events, extension>>
all == <<part, vars, pageVars, clientVars>>

\* A Worker that lets two requests wait, and a program that compiles again
\* after an edit that does not.
Play == INSTANCE PlaygroundPage WITH
    Clean <- {0, 2}, Cap <- 2, MaxEdits <- 2, MaxCalls <- 4, MaxFaults <- 1,
    ready <- pageReady, timer <- delay, calls <- asked, faults <- pageFaults
\* Two folders, and a user who waits for the servers to start; and one who also
\* closes no folder that a change under way has yet to start.
Clients == INSTANCE LanguageClients WITH
    Folders <- {f1, f2}, MaxClients <- 8, MaxEvents <- 3, Patient <- TRUE, Steady <- FALSE, active <- extension
Calm == INSTANCE LanguageClients WITH
    Folders <- {f1, f2}, MaxClients <- 8, MaxEvents <- 3, Patient <- TRUE, Steady <- TRUE, active <- extension

AllInit == part \in {"doc", "page", "clients", "calm"} /\ Init /\ Play!Init /\ Clients!Init
AllNext ==
    \/ part = "doc" /\ Next /\ UNCHANGED <<part, pageVars, clientVars>>
    \/ part = "page" /\ Play!Next /\ UNCHANGED <<part, vars, clientVars>>
    \/ part = "clients" /\ Clients!Next /\ UNCHANGED <<part, vars, pageVars>>
    \/ part = "calm" /\ Calm!Next /\ UNCHANGED <<part, vars, pageVars>>
AllSpec == AllInit /\ [][AllNext]_all

\* The editors are alike.
Alike == Permutations(Editors)

-----------------------------------------------------------------------------
\* What a close cancelled never reaches the next compiler, a remembered check
\* has its parse, a button that says Stop has its run and a tab that says it
\* compiles has its compile; every request of the page is with its Worker or
\* answered, once, within the limit, and only an outdated check is superseded.
PlaygroundsSound ==
    /\ part = "doc" => TypeOK /\ QueueCurrent /\ ParseForLast /\ RunOwned /\ CompilingOwned
    /\ part = "page" =>
          Play!TypeOK /\ Play!PendingServed /\ Play!QueueBounded /\ Play!SupersededOlder /\ Play!CompileOwned

\* Diagnostics of an older program never replace those of a newer one.
DiagsForward == DiagForward /\ Play!DiagForward

\* A folder has at most one server that is not stopping, no server runs without
\* its client and no watcher outlives its client where its stop succeeds; a
\* closed folder has no server, where none closes before its start.
ClientsSound ==
    /\ part \in {"clients", "calm"} =>
          Clients!TypeOK /\ Clients!OneServer /\ Clients!NoneRunning /\ Clients!WatchersGone
    /\ part = "calm" => Calm!ClosedStops
=============================================================================
