----------------------------- MODULE GpuRuntime -----------------------------
(***************************************************************************)
(* GPU operations of a browser application (performGpuOperation,           *)
(* runtime/wasm/app-runtime.mjs).  Operations run concurrently and stop at *)
(* each await: for the device, for the error scopes of what they asked of  *)
(* it, for a readback to be mapped, for submitted work.  Handles are small *)
(* numbers; a readback is named after the operation that made it, and so   *)
(* is a dispatch's uniform buffer.  Every operation releases its lease     *)
(* when it ends (see EffectFrames).                                        *)
(***************************************************************************)
EXTENDS Naturals, FiniteSets, FiniteSetsExt

CONSTANTS
    Ops,            \* operations
    Kinds,          \* what each of them may do
    MaxBuffers      \* buffers that may be created

VARIABLES
    device,         \* "none", "requested", "ready" or "refused"
    failure,        \* gpuFailure is set: a device was lost
    uncaptured,     \* gpuUncaptured is set
    buffers,        \* handles in runtime.buffers
    issued,         \* handles issued so far
    live,           \* GPU buffers not destroyed
    kernels,        \* operations whose kernel is in runtime.kernels
    download,       \* the readback queued on each buffer
    readback,       \* per operation: is its GPU buffer live, mapped, synchronized
    op,             \* per operation: what it does, where it is
    over            \* has the run ended

vars == <<device, failure, uncaptured, buffers, issued, live, kernels, download, readback, op, over>>

Handles == 1..MaxBuffers
None == "none"
Attached == {download[b] : b \in Handles} \ {None}

Init ==
    /\ device = "none" /\ failure = FALSE /\ uncaptured = FALSE
    /\ buffers = {} /\ issued = 0 /\ live = {} /\ kernels = {}
    /\ download = [b \in Handles |-> None]
    /\ readback = [o \in Ops |-> [live |-> FALSE, map |-> "no", synced |-> FALSE]]
    /\ op = [o \in Ops |-> [kind |-> "open", b |-> 1, pc |-> "new", of |-> None, before |-> {}]]
    /\ over = FALSE

Goto(o, pc) == op' = [op EXCEPT ![o].pc = pc]
Make(o) == readback' = [readback EXCEPT ![o].live = TRUE]
\* Mutant: what an operation made for itself is not destroyed.
DiscardNothing(o) == UNCHANGED readback
Discard(o) == readback' = [readback EXCEPT ![o].live = FALSE]

\* destroyGpuDownload of the buffers of S.
DestroyDownloads(S) ==
    /\ download' = [b \in Handles |-> IF b \in S THEN None ELSE download[b]]
    /\ readback' = [o \in Ops |-> IF o \in {download[b] : b \in S} THEN [readback[o] EXCEPT !.live = FALSE] ELSE readback[o]]
\* Mutant: a destroyed buffer keeps its handle.
DestroyBuffersKept(S) == DestroyDownloads(S) /\ live' = live \ S /\ UNCHANGED buffers
DestroyBuffers(S) == DestroyDownloads(S) /\ live' = live \ S /\ buffers' = buffers \ S

-----------------------------------------------------------------------------
\* An operation starts by asking for the device, requested once.
Start(o, kind, b) ==
    /\ op[o].pc = "new" /\ ~over
    /\ op' = [op EXCEPT ![o] = [@ EXCEPT !.kind = kind, !.b = b, !.pc = "device"]]
    /\ device' = IF device = "none" THEN "requested" ELSE device
    /\ UNCHANGED <<failure, uncaptured, buffers, issued, live, kernels, download, readback, over>>
DeviceAnswers(answer) ==
    /\ device = "requested" /\ device' = answer
    /\ UNCHANGED <<failure, uncaptured, buffers, issued, live, kernels, download, readback, op, over>>
DeviceLost ==
    /\ device = "ready" /\ device' = "none" /\ failure' = TRUE
    /\ UNCHANGED <<uncaptured, buffers, issued, live, kernels, download, readback, op, over>>
Uncaptured ==
    /\ device = "ready" /\ uncaptured' = TRUE
    /\ UNCHANGED <<device, failure, buffers, issued, live, kernels, download, readback, op, over>>

\* Is operation o refused before its first device call.
Refused(o) ==
    LET k == op[o].kind
        b == op[o].b
        d == download[b]
    IN \/ k \in {"destroy", "upload", "dispatch", "enqueue", "read", "download"} /\ b \notin buffers
       \/ k = "dispatch" /\ kernels = {}
       \/ k = "enqueue" /\ d # None
       \/ k = "read" /\ IF d = None THEN TRUE ELSE ~readback[d].synced \/ readback[d].map # "ready"

\* performGpuOperation from the device to its next await.
Begin(o) ==
    LET k == op[o].kind IN
    /\ op[o].pc = "device" /\ device # "requested"
    /\ uncaptured' = (uncaptured /\ (failure \/ device = "refused"))
    /\ IF failure \/ device = "refused" \/ uncaptured \/ Refused(o)
       THEN Goto(o, "failed") /\ UNCHANGED <<buffers, live, kernels, download, readback>>
       ELSE \/ k = "open" /\ Goto(o, "done") /\ UNCHANGED <<buffers, live, kernels, download, readback>>
            \/ k = "close" /\ DestroyBuffers(buffers) /\ kernels' = {} /\ Goto(o, "done")
            \/ k = "destroy" /\ DestroyBuffers({op[o].b}) /\ Goto(o, "done") /\ UNCHANGED kernels
            \/ k = "free" /\ kernels' = {} /\ Goto(o, "done") /\ UNCHANGED <<buffers, live, download, readback>>
            \/ k = "read" /\ DestroyDownloads({op[o].b}) /\ Goto(o, "done") /\ UNCHANGED <<buffers, live, kernels>>
            \/ /\ k \in {"create", "compile", "upload"} /\ Goto(o, "gpu")
               /\ UNCHANGED <<buffers, live, kernels, download, readback>>
            \/ /\ k \in {"dispatch", "enqueue", "download"} /\ Goto(o, "gpu") /\ Make(o)
               /\ UNCHANGED <<buffers, live, kernels, download>>
            \/ /\ k = "synchronize" /\ op' = [op EXCEPT ![o].pc = "submitted", ![o].before = Attached]
               /\ UNCHANGED <<buffers, live, kernels, download, readback>>
    /\ UNCHANGED <<device, failure, issued, over>>

-----------------------------------------------------------------------------
\* gpuChecked reports an error: what the operation made is destroyed.
CheckFails(o) ==
    /\ op[o].pc = "gpu" /\ Discard(o) /\ Goto(o, "failed")
    /\ UNCHANGED <<device, failure, uncaptured, buffers, issued, live, kernels, download, over>>

CreateBuffer(o) ==
    /\ op[o].pc = "gpu" /\ op[o].kind = "create" /\ issued < MaxBuffers
    /\ issued' = issued + 1 /\ buffers' = buffers \union {issued'} /\ live' = live \union {issued'}
    /\ Goto(o, "done")
    /\ UNCHANGED <<device, failure, uncaptured, kernels, download, readback, over>>
Compiled(o) ==
    /\ op[o].pc = "gpu" /\ op[o].kind = "compile" /\ kernels' = kernels \union {o} /\ Goto(o, "done")
    /\ UNCHANGED <<device, failure, uncaptured, buffers, issued, live, download, readback, over>>

\* An upload is done, or a dispatch, whose uniform buffer is destroyed.
Ran(o) ==
    /\ op[o].pc = "gpu" /\ op[o].kind \in {"upload", "dispatch"} /\ Discard(o) /\ Goto(o, "done")
    /\ UNCHANGED <<device, failure, uncaptured, buffers, issued, live, kernels, download, over>>

\* The copy is submitted: queued on its buffer, unless another was meanwhile.
\* Mutant: the download is not looked at again after the await.
QueuedMeanwhileNever(b) == FALSE
QueuedMeanwhile(b) == download[b] # None
EnqueueDownload(o) ==
    /\ op[o].pc = "gpu" /\ op[o].kind = "enqueue"
    /\ IF QueuedMeanwhile(op[o].b)
       THEN Discard(o) /\ Goto(o, "failed") /\ UNCHANGED download
       ELSE /\ download' = [download EXCEPT ![op[o].b] = o]
            /\ readback' = [readback EXCEPT ![o].map = "pending"] /\ Goto(o, "done")
    /\ UNCHANGED <<device, failure, uncaptured, buffers, issued, live, kernels, over>>
BeginMap(o) ==
    /\ op[o].pc = "gpu" /\ op[o].kind = "download" /\ Goto(o, "map")
    /\ readback' = [readback EXCEPT ![o].map = "pending"]
    /\ UNCHANGED <<device, failure, uncaptured, buffers, issued, live, kernels, download, over>>

\* mapAsync settles: a buffer destroyed meanwhile is not mapped.
MapSettles(o, ok) ==
    /\ readback[o].map = "pending" /\ (ok => readback[o].live)
    /\ readback' = [readback EXCEPT ![o].map = IF ok THEN "ready" ELSE "error", ![o].live = @ /\ op[o].pc # "map"]
    /\ IF op[o].pc = "map" THEN Goto(o, IF ok THEN "done" ELSE "failed") ELSE UNCHANGED op
    /\ UNCHANGED <<device, failure, uncaptured, buffers, issued, live, kernels, download, over>>

-----------------------------------------------------------------------------
\* runtime-synchronize goes to the next buffer past handle h with a download.
\* Mutant: a download that is not mapped yet is passed over.
ToAwaitMapped(h) == {b \in buffers : b > h /\ IF download[b] = None THEN FALSE ELSE readback[download[b]].map # "pending"}
ToAwait(h) == {b \in buffers : b > h /\ download[b] # None}
NextDownload(o, h) ==
    IF ToAwait(h) = {} THEN Goto(o, "done")
    ELSE LET b == Min(ToAwait(h)) IN op' = [op EXCEPT ![o].pc = "sync", ![o].b = b, ![o].of = download[b]]
Submitted(o) ==
    /\ op[o].pc = "submitted" /\ NextDownload(o, 0)
    /\ UNCHANGED <<device, failure, uncaptured, buffers, issued, live, kernels, download, readback, over>>

\* Its promise settled: synchronized, or its error is this operation's.
\* Mutant: the error of a readback is not looked at.
UnmappedNever(d) == FALSE
Unmapped(d) == readback[d].map = "error"
SyncDownload(o) ==
    LET d == op[o].of IN
    /\ op[o].pc = "sync" /\ readback[d].map \in {"ready", "error"}
    /\ IF Unmapped(d)
       THEN DestroyDownloads({op[o].b}) /\ Goto(o, "failed")
       ELSE /\ readback' = [readback EXCEPT ![d].synced = TRUE]
            /\ NextDownload(o, op[o].b) /\ UNCHANGED download
    /\ UNCHANGED <<device, failure, uncaptured, buffers, issued, live, kernels, over>>

\* The end of the run destroys the buffers and then the device.
End ==
    /\ ~over /\ over' = TRUE /\ live' = live \ buffers
    /\ UNCHANGED <<device, failure, uncaptured, buffers, issued, kernels, download, readback, op>>

Next ==
    \/ DeviceAnswers("ready") \/ DeviceAnswers("refused") \/ DeviceLost \/ Uncaptured \/ End
    \/ \E o \in Ops :
          \/ \E k \in Kinds[o], b \in Handles : Start(o, k, b)
          \/ Begin(o) \/ CheckFails(o) \/ CreateBuffer(o) \/ Compiled(o) \/ Ran(o) \/ EnqueueDownload(o)
          \/ BeginMap(o) \/ MapSettles(o, TRUE) \/ MapSettles(o, FALSE) \/ Submitted(o) \/ SyncDownload(o)

Spec == Init /\ [][Next]_vars

-----------------------------------------------------------------------------
TypeOK ==
    /\ device \in {"none", "requested", "ready", "refused"} /\ buffers \subseteq 1..issued
    /\ download \in [Handles -> Ops \union {None}] /\ kernels \subseteq Ops
    /\ \A o \in Ops : op[o].pc \in {"new", "device", "gpu", "map", "submitted", "sync", "done", "failed"}
    /\ \A b \in Handles : ~over => (b \in buffers <=> b \in live)

\* A GPU buffer made for an operation is destroyed, or its operation still runs,
\* or it is queued on one buffer; and what is queued is not destroyed.
ReadbackOwned ==
    \A o \in Ops :
        /\ readback[o].live <=> o \in Attached \/ (op[o].pc \in {"gpu", "map"} /\ op[o].kind \in {"dispatch", "enqueue", "download"})
        /\ Cardinality({b \in Handles : download[b] = o}) <= 1

\* Only a mapped readback is synchronized, so a read never meets an unmapped one.
SyncedMapped == \A d \in Ops : readback[d].synced => readback[d].map = "ready"

\* After synchronize every download queued before it can be read.
SyncCovers ==
    \A o \in Ops : op[o].pc = "done" /\ op[o].kind = "synchronize" =>
        \A d \in op[o].before : (\E b \in buffers : download[b] = d) => readback[d].synced
=============================================================================
