------------------------- MODULE MCBrowserServices -------------------------
(***************************************************************************)
(* What serves a browser application, on small instances: loading it, its  *)
(* frames, the page and its Worker, channels and their tables, the pool of *)
(* lanes, pushed messages and uploads, files, HTTP, the GPU and audio.  They share no state here: a   *)
(* behaviour is one of one component, named by `part`, and the others stay *)
(* as they start.                                                          *)
(***************************************************************************)
EXTENDS AssetLoad, Integers

CONSTANTS la, lb

Assets == <<"app", "kernel", "kernel">>
Encoded == [n \in {"app", "kernel", "kernel.gz", "lane"} |-> IF n = "kernel" THEN "kernel.gz" ELSE n]

VARIABLES
    part,
    req, armed, held, settled, leases, shipped, mode, wake, responses, effects, frameAborted, outcome,
    running, settles, launched, pushed, controllers, signals, ended, terminated, app, appCancelled, opened, hostPush, early,
    given, hostCall, quit, persist, toWorker, fromWorker,
    portAt, portClosed, slots, room, queue, retained, wires, waiting, generation, claimed, snapshots, owners, remote, sent, portGot,
    place, entry, watch, ready, told, supervisor, resources, toHost, toEnd, cancelled, interrupts, hostClosed,
    pool, worker, current, interrupted, toPage, crashes,
    routes, inbound, dropped, pushes, streamGot, counted, unrouted, frame, notify, scheduled, uploads, reassembled, streamClosed,
    requests, fileAt, fileStage, failed, root, refused, content, locked, foreign, handles, nextHandle, fileOver,
    stage, length, answer, aborted, listening, timed, bodies, taken, signalled,
    device, failure, uncaptured, buffers, issued, live, kernels, download, readback, op, over,
    port, replies, pending, asked, report, audioSent, chunks, offset, queued, playing, underruns, played

frameVars == <<req, armed, held, settled, leases, shipped, mode, wake, responses, effects, frameAborted, outcome>>
sessionVars == <<running, settles, launched, pushed, controllers, signals, ended, terminated, app, appCancelled, opened,
                 hostPush, early, given, hostCall, quit, persist, toWorker, fromWorker>>
portVars == <<portAt, portClosed, slots, room, queue, retained, wires, waiting, generation, claimed, snapshots, owners, remote,
              sent, portGot>>
hostVars == <<place, entry, watch, ready, told, supervisor, resources, toHost, toEnd, cancelled, interrupts, hostClosed>>
poolVars == <<pool, worker, current, interrupted, toPage, crashes>>
streamVars == <<routes, inbound, dropped, pushes, streamGot, counted, unrouted, frame, notify, scheduled, uploads,
                reassembled, streamClosed>>
fileVars == <<requests, fileAt, fileStage, failed, root, refused, content, locked, foreign, handles, nextHandle, fileOver>>
httpVars == <<stage, length, answer, aborted, listening, timed, bodies, taken, signalled>>
gpuVars == <<device, failure, uncaptured, buffers, issued, live, kernels, download, readback, op, over>>
audioVars == <<port, replies, pending, asked, report, audioSent, chunks, offset, queued, playing, underruns, played>>

\* Two sleeps, a request with a lease and one without, under a limit the run
\* can exceed.
Frames == INSTANCE EffectFrames WITH
    Requests <- 1..4, Leased <- {3}, Timers <- {1, 2}, Size <- [r \in 1..4 |-> 2], Budget <- 4, Slot <- 5, PerTurn <- 2,
    PerRun <- 3, frame <- shipped, answer <- responses, signalled <- frameAborted
\* Pushes over an early bound of one, and one call.
Session == INSTANCE PageSession WITH
    Calls <- {1}, MaxPushes <- 2, MaxEarly <- 1,
    pending <- running, cancelled <- appCancelled, taken <- given, call <- hostCall, toPage <- fromWorker
\* Two slots, payloads of no bytes and of all of them; a moved end may wait on
\* the page for its lane, a taken one too.
Port == INSTANCE PortChannel WITH
    Messages <- 2, Bytes <- 2, Sizes <- {0, 2}, MaxSends <- 3, MaxGeneration <- 3, Loiters <- TRUE, Supervised <- TRUE,
    at <- portAt, closed <- portClosed, got <- portGot
Host == INSTANCE ChannelHost WITH
    Resources <- {1}, Lanes <- {la, lb}, MaxInterrupts <- 2, Loiters <- TRUE, closed <- hostClosed
\* Three tasks, one dedicated and two with endpoints, over one lane.
Pool == INSTANCE WorkerPool WITH
    Tasks <- {"t1", "t2", "t3"}, Carriers <- {"t1", "t3"}, Dedicated <- {"t3"}, Capacity <- 1, MaxDedicated <- 1,
    Opens <- 4, Unopenable <- {2}, MaxCrashes <- 1, IdleFails <- FALSE
\* Two kinds of message over a bound of two; three uploads over a limit that
\* two of them fill.
Pushed == INSTANCE HostStreams WITH
    Kinds <- {"x", "y"}, Keeps <- {0, 1}, Bound <- 2, MaxPushes <- 3, Transfers <- {}, Total <- <<>>, Limit <- 1,
    got <- streamGot, closed <- streamClosed
Uploaded == INSTANCE HostStreams WITH
    Kinds <- {"x"}, Keeps <- {0, 1}, Bound <- 2, MaxPushes <- 1, Transfers <- {"a", "b", "z"},
    Total <- [a |-> 2, b |-> 1, z |-> 0], Limit <- 2, got <- streamGot, closed <- streamClosed
\* One file opened in several modes, closed, reopened and removed; and sought
\* past its end and written.
Operation(kind, with, handle, to) == [op |-> kind, file |-> "f", mode |-> with, handle |-> handle, offset |-> to]
Opened == INSTANCE FileStore WITH
    Files <- {"f"}, MaxRequests <- 4, MaxSize <- 2, MaxRefusals <- 2,
    Operations <- {Operation("open", m, 0, 0) : m \in {"r", "w", "a+"}} \cup {Operation("close", "r", 1, 0)}
                  \cup {Operation(o, "r", 0, 0) : o \in {"remove", "info"}},
    at <- fileAt, stage <- fileStage, over <- fileOver
Written == INSTANCE FileStore WITH
    Files <- {"f"}, MaxRequests <- 4, MaxSize <- 2, MaxRefusals <- 0,
    Operations <- {Operation("open", m, 0, 0) : m \in {"a+", "r+"}} \cup {Operation("seek", "r", 1, n) : n \in {0, 2}}
                  \cup {Operation(o, "r", 1, 0) : o \in {"read", "write", "close"}},
    at <- fileAt, stage <- fileStage, over <- fileOver
\* Two requests whose bodies are retained and one whose body is answered.
Http == INSTANCE HttpBodies WITH Requests <- {"a", "b", "c"}, Retaining <- {"a", "b"}, Limit <- 2
\* Downloads queued, awaited and read on one buffer and on two; kernels
\* compiled, dispatched and freed. One of those three operations, which are
\* otherwise alike, makes something, since the rest are refused without.
Does == [o \in {"c1", "c2", "e1", "e2", "s", "x"} |->
    CASE o \in {"c1", "c2"} -> {"create"} [] o \in {"e1", "e2"} -> {"enqueue"} [] o = "s" -> {"synchronize"}
      [] OTHER -> {"synchronize", "enqueue", "destroy", "read"}]
Downloads == INSTANCE GpuRuntime WITH Ops <- {"c1", "e1", "e2", "s", "x"}, Kinds <- Does, MaxBuffers <- 1
TwoBuffers == INSTANCE GpuRuntime WITH Ops <- {"c1", "c2", "e1", "s"}, Kinds <- Does, MaxBuffers <- 2
Kernels == INSTANCE GpuRuntime WITH
    Ops <- {"c", "d", "e"}, MaxBuffers <- 1,
    Kinds <- [o \in {"c", "d", "e"} |->
        {"open", "create", "compile"}
        \cup IF o = "c" THEN {} ELSE {"upload", "dispatch", "download", "free", "close"}]
\* Chunks shorter, as long as and longer than a quantum.
Audio == INSTANCE AudioStream WITH
    Chunks <- {1, 2, 3}, Quantum <- 2, BufferAhead <- 3, MaxChunks <- 4, MaxStats <- 1, sent <- audioSent

Streaming == {"pushed", "uploaded"}
Filing == {"opened", "written"}
Computing == {"downloads", "two buffers", "kernels"}
Parts == {"load", "frames", "session", "port", "host", "pool", "http", "audio"} \cup Streaming \cup Filing \cup Computing

AllInit ==
    /\ part \in Parts /\ Init /\ Frames!Init /\ Session!Init /\ Port!Init /\ Host!Init /\ Pool!Init /\ Opened!Init /\ Http!Init /\ Audio!Init
    /\ part # "load" => atomic
    /\ \/ part # "uploaded" /\ Pushed!Init
       \/ part = "uploaded" /\ Uploaded!Init
    /\ \/ part = "kernels" /\ Kernels!Init
       \/ part = "two buffers" /\ TwoBuffers!Init
       \/ part \notin {"kernels", "two buffers"} /\ Downloads!Init

\* All but the variables of the one that moves.
AllNext ==
    \/ /\ part = "load" /\ Next
       /\ UNCHANGED <<part, frameVars, sessionVars, portVars, hostVars, poolVars, streamVars, fileVars, httpVars, gpuVars, audioVars>>
    \/ /\ part = "frames" /\ Frames!Next
       /\ UNCHANGED <<part, vars, sessionVars, portVars, hostVars, poolVars, streamVars, fileVars, httpVars, gpuVars, audioVars>>
    \/ /\ part = "session" /\ Session!Next
       /\ UNCHANGED <<part, vars, frameVars, portVars, hostVars, poolVars, streamVars, fileVars, httpVars, gpuVars, audioVars>>
    \/ /\ part = "port" /\ Port!Next
       /\ UNCHANGED <<part, vars, frameVars, sessionVars, hostVars, poolVars, streamVars, fileVars, httpVars, gpuVars, audioVars>>
    \/ /\ part = "host" /\ Host!Next
       /\ UNCHANGED <<part, vars, frameVars, sessionVars, portVars, poolVars, streamVars, fileVars, httpVars, gpuVars, audioVars>>
    \/ /\ part = "pool" /\ Pool!Next
       /\ UNCHANGED <<part, vars, frameVars, sessionVars, portVars, hostVars, streamVars, fileVars, httpVars, gpuVars, audioVars>>
    \/ /\ part \in Streaming
       /\ (part = "pushed" /\ Pushed!Next) \/ (part = "uploaded" /\ Uploaded!Next)
       /\ UNCHANGED <<part, vars, frameVars, sessionVars, portVars, hostVars, poolVars, fileVars, httpVars, gpuVars, audioVars>>
    \/ /\ part \in Filing
       /\ (part = "opened" /\ Opened!Next) \/ (part = "written" /\ Written!Next)
       /\ UNCHANGED <<part, vars, frameVars, sessionVars, portVars, hostVars, poolVars, streamVars, httpVars, gpuVars, audioVars>>
    \/ /\ part = "http" /\ Http!Next
       /\ UNCHANGED <<part, vars, frameVars, sessionVars, portVars, hostVars, poolVars, streamVars, fileVars, gpuVars, audioVars>>
    \/ /\ part \in Computing
       /\ \/ part = "downloads" /\ Downloads!Next
          \/ part = "two buffers" /\ TwoBuffers!Next
          \/ part = "kernels" /\ Kernels!Next
       /\ UNCHANGED <<part, vars, frameVars, sessionVars, portVars, hostVars, poolVars, streamVars, fileVars, httpVars, audioVars>>
    \/ /\ part = "audio" /\ Audio!Next
       /\ UNCHANGED <<part, vars, frameVars, sessionVars, portVars, hostVars, poolVars, streamVars, fileVars, httpVars, gpuVars>>

all == <<part, vars, frameVars, sessionVars, portVars, hostVars, poolVars, streamVars, fileVars, httpVars, gpuVars, audioVars>>
AllSpec == AllInit /\ [][AllNext]_all

-----------------------------------------------------------------------------
\* A request runs, is held with its frame, queued or answered, and only one of
\* these; leases stay with their frame, a frame waits only for what will come,
\* limits hold and no timer survives the run.
FramesSound == part = "frames" =>
    /\ Frames!TypeOK /\ Frames!Accounted /\ Frames!LeaseInFrame /\ Frames!NoLostWake /\ Frames!NoTimerLeft
    /\ Frames!RunBounded

\* The page's promise settles once, pushes keep their order, and the handler of
\* a call the application quit is told.
SessionSound == part = "session" => Session!TypeOK /\ Session!SettledOnce /\ Session!PushesInOrder /\ Session!QuitReaches

\* A channel between two honest ends never overruns its credits, an end has one
\* owner and nobody sleeps on a ready end, wherever the ends are moved, left
\* waiting for a lane, closed or terminated; the page's tables agree with its
\* supervisors, and no watch outlives its reason.
ChannelsSound ==
    /\ part = "port" => Port!TypeOK /\ Port!NoOverrun /\ Port!OneOwner /\ Port!WaitersSound
    /\ part = "host" => Host!TypeOK /\ Host!WatchesSound /\ Host!TablesAgree

\* A lane runs what the page assigned it, a task is interrupted only when its
\* own cancellation was asked for, and the endpoints of a settled task are
\* closed or revoked.
PoolSound == part = "pool" => Pool!TypeOK /\ Pool!LaneAgrees /\ Pool!CancelExact /\ Pool!EndpointsAccounted

\* Pushed messages keep their order, every drop is counted, a waiting frame is
\* woken; what is charged for uploads is what is there, within the limit.
StreamsSound ==
    /\ part = "pushed" => Pushed!TypeOK /\ Pushed!InOrder /\ Pushed!DropsCounted /\ Pushed!NoLostWake
    /\ part = "uploaded" => Uploaded!TypeOK /\ Uploaded!ReassemblyExact

\* A file is locked by its one open handle or the open that enters it, and one
\* refusal of the storage fails one operation.
FilesSound == part = "opened" => Opened!TypeOK /\ Opened!LocksOwned /\ Opened!RefusedOnce

\* A write through an appending handle keeps every byte already in the file.
AppendsKeep == Written!AppendsKeep

\* Retained bodies stay within the limit, and no body, timeout or request
\* outlives the run.
BodiesSound == part = "http" => Http!TypeOK /\ Http!RetainedBounded /\ Http!NoneRetained /\ Http!TimeoutsOwned /\ Http!AbortReaches

\* Every readback buffer has one owner until it is destroyed, only a mapped
\* one is read, and a synchronize has waited for every download before it.
ReadbacksSound ==
    /\ part = "downloads" => Downloads!TypeOK /\ Downloads!ReadbackOwned /\ Downloads!SyncedMapped /\ Downloads!SyncCovers
    /\ part = "two buffers" => TwoBuffers!SyncCovers
    /\ part = "kernels" => Kernels!ReadbackOwned

\* Every frame sent is on its way, queued or played, once, the reported depth
\* is exact, and two underruns are a buffer-ahead apart.
AudioSound == part = "audio" =>
    Audio!TypeOK /\ Audio!QueuedExact /\ Audio!FramesKept /\ Audio!UnderrunsSpaced /\ Audio!StatsComing
=============================================================================
