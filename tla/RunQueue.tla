------------------------------ MODULE RunQueue ------------------------------
(***************************************************************************)
(* The run queue of src/nupp/tasks.nupp as the scope keeps it: an array    *)
(* from which settled children are not removed, and two counters that say  *)
(* how many entries a resume would take and how many it would skip.        *)
(* "Readiness is `ready`, never the queue's length."                       *)
(***************************************************************************)
EXTENDS Integers, Sequences, SequencesExt, FiniteSets

CONSTANTS
    Children,   \* the children of the scope
    Threshold   \* how many stale entries are kept before compaction: 32

VARIABLES
    entries,    \* queue[head..tail]
    ready,      \* owner.ready
    stale,      \* owner.stale
    runnable,   \* children with child.runnable
    settled,    \* children whose status is done, failed or cancelled
    took        \* what takeRunnable answered last: a child, or {} for nil

vars == <<entries, ready, stale, runnable, settled, took>>

Init ==
    /\ entries = <<>>
    /\ ready = 0 /\ stale = 0
    /\ runnable = {} /\ settled = {}
    /\ took = {}

\* Mutant: a child that is runnable already is queued again.
MarkAgain(c) ==
    /\ c \notin settled
    /\ Len(entries) <= 2 * Cardinality(Children)
    /\ runnable' = runnable \union {c}
    /\ entries' = Append(entries, c)
    /\ ready' = ready + 1
    /\ took' = {}
    /\ UNCHANGED <<stale, settled>>

\* markRunnable: nothing for a child that is runnable or has settled.
MarkRunnable(c) ==
    /\ c \notin settled
    /\ IF c \in runnable
       THEN UNCHANGED <<entries, ready, runnable>>
       ELSE /\ runnable' = runnable \union {c}
            /\ entries' = Append(entries, c)
            /\ ready' = ready + 1
    /\ took' = {}
    /\ UNCHANGED <<stale, settled>>

\* What of s is in S, in the order of s.
Only(s, S) ==
    LET f[i \in 0..Len(s)] ==
            IF i = 0 THEN <<>> ELSE IF s[i] \in S THEN Append(f[i - 1], s[i]) ELSE f[i - 1]
    IN f[Len(s)]

\* Mutant: compaction stops one short of the tail.
CompactPrefix(kept, waste) ==
    IF waste > Threshold /\ waste > Cardinality(kept)
    THEN LET rest == Only(entries, kept)
         IN entries' = SubSeq(rest, 1, Len(rest) - 1) /\ stale' = 0
    ELSE entries' = entries /\ stale' = waste

\* Mutant: compaction forgets to reset the count.
CompactUncounted(kept, waste) ==
    /\ stale' = waste
    /\ entries' = IF waste > Threshold /\ waste > Cardinality(kept)
                  THEN Only(entries, kept)
                  ELSE entries

\* compactQueue: once the stale entries outnumber the live ones, and are
\* many, only the runnable ones are kept.
CompactQueue(kept, waste) ==
    IF waste > Threshold /\ waste > Cardinality(kept)
    THEN entries' = Only(entries, kept) /\ stale' = 0
    ELSE entries' = entries /\ stale' = waste

\* Mutant: a child that is not in the queue is counted off as well.
SettleUnqueued(c) ==
    /\ c \notin settled
    /\ settled' = settled \union {c}
    /\ runnable' = runnable \ {c}
    /\ ready' = ready - 1
    /\ CompactQueue(runnable \ {c}, IF c \in runnable THEN stale + 1 ELSE stale)
    /\ took' = {}

\* The part of settleChild that concerns the queue: a child that settles
\* while it sits there leaves its entry behind.
SettleChild(c) ==
    /\ c \notin settled
    /\ settled' = settled \union {c}
    /\ IF c \in runnable
       THEN /\ runnable' = runnable \ {c}
            /\ ready' = ready - 1
            /\ CompactQueue(runnable \ {c}, stale + 1)
       ELSE UNCHANGED <<entries, ready, stale, runnable>>
    /\ took' = {}

\* takeRunnable: skip the stale entries before the first runnable one; an
\* exhausted queue starts over.
TakeRunnable ==
    \/ \E i \in 1..Len(entries) :
          /\ entries[i] \in runnable
          /\ \A j \in 1..(i - 1) : entries[j] \notin runnable
          /\ entries' = SubSeq(entries, i + 1, Len(entries))
          /\ runnable' = runnable \ {entries[i]}
          /\ ready' = ready - 1
          /\ stale' = stale - (i - 1)
          /\ took' = {entries[i]}
          /\ UNCHANGED settled
    \/ /\ \A i \in 1..Len(entries) : entries[i] \notin runnable
       /\ entries' = <<>> /\ stale' = 0 /\ took' = {}
       /\ UNCHANGED <<ready, runnable, settled>>

Next == TakeRunnable \/ \E c \in Children : MarkRunnable(c) \/ SettleChild(c)

Spec == Init /\ [][Next]_vars

-----------------------------------------------------------------------------
TypeOK ==
    /\ entries \in Seq(Children)
    /\ ready \in Nat /\ stale \in Nat
    /\ runnable \subseteq Children /\ settled \subseteq Children
    /\ took \subseteq Children

\* The counters are exact however settling, taking and compaction interleave:
\* the driver parks when `ready` is zero, so a count that is too low leaves a
\* runnable child asleep, and one that is too high keeps the driver spinning.
CountsExact ==
    /\ ready = Cardinality(runnable)
    /\ ready + stale = Len(entries)

\* The array never holds a child twice, and what it holds that is not
\* runnable has settled: no child is resumed for an entry it left behind.
EntriesSound ==
    /\ \A i, j \in 1..Len(entries) : entries[i] = entries[j] => i = j
    /\ \A c \in runnable : Contains(entries, c)
    /\ runnable \cap settled = {}
    /\ \A i \in 1..Len(entries) : entries[i] \in runnable \union settled

\* The array with stale entries behaves as a FIFO of the runnable children.
Fifo == INSTANCE FifoQueue WITH
    Members <- Children,
    order <- Only(entries, runnable),
    finished <- settled,
    taken <- took

ImplementsFifo == Fifo!FifoSpec
=============================================================================
