----------------------------- MODULE FifoQueue -----------------------------
(***************************************************************************)
(* What the run queue of a task scope promises: children become runnable,  *)
(* are taken in the order they became so, and leave without being taken    *)
(* when they settle.  TaskScope works with this queue.                     *)
(***************************************************************************)
EXTENDS Integers, Sequences, SequencesExt

CONSTANT Members

VARIABLES
    order,      \* the runnable children, first to run first
    finished,   \* the children that have settled
    taken       \* the child the last step took, {} where it took none

fifoVars == <<order, finished, taken>>

FifoInit == order = <<>> /\ finished = {} /\ taken = {}

Join(c) ==
    /\ c \notin finished
    /\ order' = IF Contains(order, c) THEN order ELSE Append(order, c)
    /\ taken' = {}
    /\ UNCHANGED finished

Leave(c) ==
    /\ c \notin finished
    /\ finished' = finished \union {c}
    /\ order' = RemoveFirst(order, c)
    /\ taken' = {}

TakeNext ==
    \/ /\ order # <<>>
       /\ taken' = {Head(order)}
       /\ order' = Tail(order)
       /\ UNCHANGED finished
    \/ /\ order = <<>>
       /\ taken' = {}
       /\ UNCHANGED <<order, finished>>

FifoNext == TakeNext \/ \E c \in Members : Join(c) \/ Leave(c)

FifoSpec == FifoInit /\ [][FifoNext]_fifoVars
=============================================================================
