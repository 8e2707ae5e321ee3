-------------------------- MODULE LanguageClients --------------------------
(***************************************************************************)
(* The language servers of the VS Code extension                           *)
(* (editors/vscode/extension.js): a client per workspace folder, started,  *)
(* stopped and restarted by handlers that overlap where they await.        *)
(***************************************************************************)
EXTENDS Naturals, FiniteSets

CONSTANTS
    Folders,
    MaxClients,     \* clients ever made
    MaxEvents,      \* restarts and folder changes
    Patient,        \* do those come only when no client is starting
    Steady          \* does no folder close that a change under way has yet to start

VARIABLES
    workspace,      \* the folders that are open
    clients,        \* folder -> client, or 0
    client,         \* of each made: folder, state and whether its watchers live
    restarts,       \* restarts, and the deactivation, that wait for these clients to stop
    changes,        \* folder changes that do, and what each adds
    stops,          \* clients for which a stopClient waits
    events, active

vars == <<workspace, clients, client, restarts, changes, stops, events, active>>
Ids == DOMAIN client
New == Cardinality(Ids) + 1
Starting(c) == client[c].state = "starting"

Init ==
    /\ workspace = Folders /\ clients = [f \in Folders |-> 0] /\ client = <<>>
    /\ restarts = {} /\ changes = {} /\ stops = {} /\ events = 0 /\ active = "no"

\* startClient: nothing when the folder has one.
\* Mutant: a folder that has a client gets another.
MissingAll(fs) == fs
Missing(fs) == {f \in fs : clients[f] = 0}
Ordered(fs, n) == CHOOSE g \in [fs -> n..(n + Cardinality(fs) - 1)] : \A f, h \in fs : g[f] = g[h] => f = h
StartClients(fs, disposed) ==
    LET new == Missing(fs)
        id == Ordered(new, New)
        last == Cardinality(Ids) + Cardinality(new)
    IN /\ last <= MaxClients
       /\ clients' = [f \in Folders |-> IF f \in new THEN id[f] ELSE clients[f]]
       /\ client' = [c \in 1..last |->
             IF c \in Ids THEN [client[c] EXCEPT !.watch = @ /\ c \notin disposed]
             ELSE [folder |-> CHOOSE f \in new : id[f] = c, state |-> "starting", watch |-> TRUE]]

\* client.start resolves, or throws: the folder's entry is dropped, and where
\* client.dispose throws too the watchers stay.
Started(c) ==
    /\ Starting(c) /\ client' = [client EXCEPT ![c].state = "running"]
    /\ UNCHANGED <<workspace, clients, restarts, changes, stops, events, active>>
\* Mutant: a client that did not start keeps its entry.
DroppedNone(f) == clients
Dropped(f) == [clients EXCEPT ![f] = 0]
StartFails(c) ==
    /\ Starting(c) /\ clients' = Dropped(client[c].folder)
    /\ \/ client' = [client EXCEPT ![c].state = "gone", ![c].watch = FALSE]
       \/ client' = [client EXCEPT ![c].state = "left"]
    /\ UNCHANGED <<workspace, restarts, changes, stops, events, active>>

\* What client.stop does at once: a client that starts refuses.
AskStop(cs) == [c \in Ids |-> IF c \in cs /\ client[c].state = "running" THEN [client[c] EXCEPT !.state = "stopping"] ELSE client[c]]
Of(fs) == {clients[f] : f \in fs} \ {0}
Mapped == Of(Folders)
Cleared == [f \in Folders |-> 0]

\* A handler goes on when each stop it waits for has settled, either way, and
\* before the next event.
Settled(c) == client[c].state # "stopping"
Due(w) == \A c \in w.old : Settled(c)
Quiet ==
    /\ \A w \in restarts \cup changes : ~Due(w)
    /\ Patient => \A c \in Ids : ~Starting(c)
Event == active = "yes" /\ events < MaxEvents /\ events' = events + 1 /\ Quiet

\* activate.
Activate ==
    /\ active = "no" /\ active' = "yes" /\ StartClients(workspace, {})
    /\ UNCHANGED <<workspace, restarts, changes, stops, events>>
\* restartClients, up to its first await and after it.
Restart ==
    /\ Event /\ clients' = Cleared /\ client' = AskStop(Mapped)
    /\ restarts' = restarts \cup {[id |-> events, old |-> Mapped, again |-> TRUE]}
    /\ UNCHANGED <<workspace, changes, stops, active>>
\* Mutant: a restart starts the folders that were open when it was asked.
OpenBefore == Folders
Open == workspace
\* Mutant: a restart leaves the watchers of what it stopped.
DisposedNone(r) == {}
Disposed(r) == r.old
Restarted(r) ==
    /\ r \in restarts /\ restarts' = restarts \ {r}
    /\ Due(r) /\ StartClients(IF r.again THEN Open ELSE {}, Disposed(r))
    /\ UNCHANGED <<workspace, changes, stops, events, active>>

\* client.stop settles; a stopClient whose stop throws leaves the watchers.
StopDone(c) ==
    /\ client[c].state = "stopping" /\ client' = [client EXCEPT ![c].state = "gone"]
    /\ UNCHANGED <<workspace, clients, restarts, changes, stops, events, active>>
StopFails(c) ==
    /\ client[c].state = "stopping"
    /\ client' = [client EXCEPT ![c].state = IF c \in stops THEN "left" ELSE "gone"]
    /\ stops' = stops \ {c}
    /\ UNCHANGED <<workspace, clients, restarts, changes, events, active>>
\* stopClient, after its await.
Stopped(c) ==
    /\ c \in stops /\ Settled(c) /\ stops' = stops \ {c} /\ client' = [client EXCEPT ![c].watch = FALSE]
    /\ UNCHANGED <<workspace, clients, restarts, changes, events, active>>

\* onDidChangeWorkspaceFolders: stopClient of every folder that was removed, up
\* to its await; then startClient of those that were added, open still or not.
\* Mutant: a folder that was removed keeps its entry.
KeptEntries(removed) == clients
Deleted(removed) == [f \in Folders |-> IF f \in removed THEN 0 ELSE clients[f]]
Opening == UNION {ch.added : ch \in changes}
ChangeFolders(removed, added) ==
    /\ Event /\ removed \cup added # {} /\ (Steady => removed \cap Opening = {})
    /\ workspace' = (workspace \ removed) \cup added
    /\ clients' = Deleted(removed) /\ client' = AskStop(Of(removed))
    /\ stops' = stops \cup {c \in Of(removed) : ~Starting(c)}
    /\ changes' = changes \cup {[id |-> events, old |-> Of(removed), added |-> added]}
    /\ UNCHANGED <<restarts, active>>
FoldersStopped(ch) ==
    /\ ch \in changes /\ changes' = changes \ {ch} /\ Due(ch) /\ StartClients(ch.added, {})
    /\ UNCHANGED <<workspace, restarts, stops, events, active>>

\* deactivate, up to its await; what follows is a restart's that starts nothing.
Deactivate ==
    /\ active = "yes" /\ Quiet /\ active' = "ended" /\ clients' = Cleared /\ client' = AskStop(Mapped)
    /\ restarts' = restarts \cup {[id |-> events, old |-> Mapped, again |-> FALSE]}
    /\ UNCHANGED <<workspace, changes, stops, events>>

Next ==
    \/ Activate \/ Restart \/ Deactivate
    \/ \E c \in Ids : Started(c) \/ StartFails(c) \/ StopDone(c) \/ StopFails(c) \/ Stopped(c)
    \/ \E removed \in SUBSET workspace, added \in SUBSET (Folders \ workspace) : ChangeFolders(removed, added)
    \/ \E r \in restarts : Restarted(r)
    \/ \E ch \in changes : FoldersStopped(ch)
Spec == Init /\ [][Next]_vars

-----------------------------------------------------------------------------
\* An entry is a client of its folder that starts or runs.
TypeOK == \A f \in Folders : clients[f] # 0 =>
    client[clients[f]].folder = f /\ client[clients[f]].state \in {"starting", "running"}

\* A folder never has two servers that run, other than one that is stopping.
OneServer == \A c, d \in Ids : client[c].folder = client[d].folder
    /\ {client[c].state, client[d].state} \subseteq {"starting", "running"} => c = d

\* Where no client is found for a file, no server runs for its folder.
NoneRunning == active = "yes" => \A c \in Ids : client[c].state = "running" => clients[client[c].folder] = c

\* Nor when everything has settled, for the last client made for the folder.
NewestKept == active = "yes" /\ restarts = {} => \A c \in Ids :
    /\ client[c].state = "running" /\ client[c].folder \in workspace
    /\ \A d \in Ids : client[d].folder = client[c].folder => d <= c
    => clients[client[c].folder] = c

\* A folder that was closed has no server, however its closing fell between
\* the steps of a restart or of another change.
ClosedStops == active = "yes" => \A f \in Folders \ workspace : clients[f] = 0

\* Watchers outlive their client only while the handler that stops it goes on,
\* and where that handler failed at its client.
WatchersGone == \A c \in Ids : client[c].state = "gone" /\ client[c].watch =>
    c \in stops \/ \E r \in restarts : c \in r.old
\* Nor there.
WatchersFreed == \A c \in Ids : client[c].state = "left" => ~client[c].watch
=============================================================================
