---------------------------- MODULE AudioStream ----------------------------
(***************************************************************************)
(* Audio of a browser application: the page's end of the stream            *)
(* (runtime/wasm/audio.mjs) hands chunks of samples to an AudioWorklet     *)
(* (runtime/wasm/audio-worklet.mjs), which plays them a quantum at a time  *)
(* once a buffer-ahead is queued.  Counted in frames; samples are left     *)
(* out.                                                                    *)
(***************************************************************************)
EXTENDS Naturals, Integers, Sequences, SequencesExt

CONSTANTS
    Chunks,         \* lengths a chunk may have, in frames
    Quantum,        \* frames a call of process plays
    BufferAhead,
    MaxChunks,      \* chunks the application sends
    MaxStats        \* calls of stats

VARIABLES
    port,           \* to the worklet: lengths of chunks, and "stats"
    replies,        \* from the worklet: what stats reported
    pending,        \* is a stats promise to be resolved
    asked,          \* calls of stats so far
    report,         \* what stats last resolved to
    sent,           \* chunks and frames handed over
    chunks,         \* lengths of the queued chunks
    offset,         \* frames of the first one already played
    queued, playing, underruns, played

vars == <<port, replies, pending, asked, report, sent, chunks, offset, queued, playing, underruns, played>>

Frames(s) == FoldSeq(LAMBDA x, y : x + y, 0, s)
Stats == -1
NoReport == [queued |-> 0, played |-> 0]

Init ==
    /\ port = <<>> /\ replies = <<>> /\ pending = FALSE /\ asked = 0 /\ report = NoReport
    /\ sent = [chunks |-> 0, frames |-> 0] /\ chunks = <<>> /\ offset = 0
    /\ queued = 0 /\ playing = FALSE /\ underruns = 0 /\ played = 0

\* The stream's handler: any whole number of frames.
Send(n) ==
    /\ sent.chunks < MaxChunks /\ port' = Append(port, n)
    /\ sent' = [chunks |-> sent.chunks + 1, frames |-> sent.frames + n]
    /\ UNCHANGED <<replies, pending, asked, report, chunks, offset, queued, playing, underruns, played>>

\* stats: a call before the last one was answered takes its place.
AskStats ==
    /\ asked < MaxStats /\ asked' = asked + 1 /\ pending' = TRUE /\ port' = Append(port, Stats)
    /\ UNCHANGED <<replies, report, sent, chunks, offset, queued, playing, underruns, played>>
\* Mutant: an answered promise is kept.
ResolvedKept == pending
Resolved == FALSE
StatsArrive ==
    /\ replies # <<>> /\ replies' = Tail(replies) /\ pending' = Resolved
    /\ report' = IF pending THEN Head(replies) ELSE report
    /\ UNCHANGED <<port, asked, sent, chunks, offset, queued, playing, underruns, played>>

-----------------------------------------------------------------------------
\* The worklet's onmessage.
\* Mutant: the chunk that plays is not counted as queued.
QueuedWithEmpty(n) == IF chunks = <<>> THEN queued ELSE queued + n
QueuedWith(n) == queued + n
OnMessage ==
    /\ port # <<>> /\ port' = Tail(port)
    /\ LET m == Head(port) IN
       IF m = Stats
       THEN replies' = Append(replies, [queued |-> queued, played |-> played]) /\ UNCHANGED <<chunks, queued>>
       ELSE chunks' = Append(chunks, m) /\ queued' = QueuedWith(m) /\ UNCHANGED replies
    /\ UNCHANGED <<pending, asked, report, sent, offset, playing, underruns, played>>

\* Playing one frame: of the first chunk, gone when it is exhausted, even one
\* that was empty from the start.
\* Mutant: an exhausted chunk keeps its offset.
ExhaustedOffset(s) == s.offset
FreshOffset(s) == 0
PlayFrame(s) ==
    IF s.dry \/ s.chunks = <<>> THEN [s EXCEPT !.dry = TRUE]
    ELSE LET gone == s.offset + 1 >= Head(s.chunks) IN
         [s EXCEPT !.chunks = IF gone THEN Tail(@) ELSE @,
                   !.offset = IF gone THEN FreshOffset(s) ELSE @ + 1,
                   !.queued = @ - 1, !.played = @ + 1]
\* process: a quantum, or silence until the buffer-ahead is there.
\* Mutant: playback does not stop when the queue runs dry.
DriesNever(s) == TRUE
KeepsPlaying(s) == ~s.dry
Process ==
    LET start == [chunks |-> chunks, offset |-> offset, queued |-> queued, played |-> played, dry |-> FALSE]
        end == FoldSeq(LAMBDA i, s : PlayFrame(s), start, [i \in 1..Quantum |-> i])
    IN IF ~playing /\ queued < BufferAhead THEN UNCHANGED vars
       ELSE /\ chunks' = end.chunks /\ offset' = end.offset /\ queued' = end.queued /\ played' = end.played
            /\ playing' = KeepsPlaying(end) /\ underruns' = IF end.dry THEN underruns + 1 ELSE underruns
            /\ UNCHANGED <<port, replies, pending, asked, report, sent>>

\* An idle worklet that has counted every underrun it could is not followed on.
Bounded == underruns <= MaxChunks
Next == (\E n \in Chunks : Send(n)) \/ AskStats \/ StatsArrive \/ OnMessage \/ (Bounded /\ Process)
Spec == Init /\ [][Next]_vars

-----------------------------------------------------------------------------
InPort == Frames(SelectSeq(port, LAMBDA m : m # Stats))
\* Counters count, and the offset is inside the chunk that plays.
TypeOK ==
    /\ queued \in Int /\ played \in Nat /\ underruns \in Nat /\ playing \in BOOLEAN
    /\ chunks = <<>> => offset = 0
    /\ chunks # <<>> => offset < Head(chunks)

\* The depth the worklet counts and reports is the frames of its queue,
\* whatever chunks ended inside a quantum.
QueuedExact == queued = Frames(chunks) - offset

\* Every frame sent is on its way, queued or played, once.
FramesKept == InPort + queued + played = sent.frames

\* An underrun ends playback until the buffer-ahead is queued again: two
\* underruns never come without as many frames between them.
UnderrunsSpaced == underruns * BufferAhead <= played

\* A promise of stats that waits has its answer coming.
StatsComing == pending => replies # <<>> \/ Stats \in ToSet(port)
=============================================================================
