------------------------------ MODULE MCNative ------------------------------
(***************************************************************************)
(* The native runtime under a task scope on small instances:               *)
(*   "bounded"   the queue between threads, with messages of different     *)
(*               sizes, one of which no empty queue could hold;            *)
(*   "run"       the run queue of a scope, with five children and a        *)
(*               threshold of one, so that compaction happens with         *)
(*               runnable entries on either side of the stale ones;        *)
(*   "blocking"  workers without a suspension handler: a task of the pool  *)
(*               and a dedicated one, both with results that move, and a   *)
(*               lane that may end early;                                  *)
(*   "pool"      two tasks that share a lane, with deadlines and a lane    *)
(*               that may end early;                                       *)
(*   "parked"    two tasks that share a lane, under a handler;             *)
(*   "ending"    a dedicated task under a handler, whose await may be      *)
(*               cancelled.                                                *)
(* They share no state: a behaviour is one of one part.                    *)
(***************************************************************************)
EXTENDS BoundedQueue

CONSTANTS p1, p2, c1, c2, small, medium, large, oversized, Children

MCBytes == [m \in Messages |->
    CASE m = small -> 0 [] m = medium -> 1 [] m = large -> 2 [] OTHER -> 4]

VARIABLES part, array, ready, stale, runnable, settled, took,
          up, on, pending, inflight, inbox, outbox, shut, status, thread, state, observed, list, at, waiters, busy, todo,
          frees, joinee, storage, ran, crashed
runVars == <<array, ready, stale, runnable, settled, took>>
workerVars == <<up, on, pending, inflight, inbox, outbox, shut, status, thread, state, observed, list, at, waiters, busy,
                todo, frees, joinee, storage, ran, crashed>>
all == <<part, vars, runVars, workerVars>>

Run == INSTANCE RunQueue WITH Threshold <- 1, entries <- array
Blocking == INSTANCE NativeWorkers WITH closed <- shut, Tasks <- {"a", "d"}, Dedicated <- {"d"}, Pooled <- {"p"},
    Moving <- {"a", "d"}, Room <- 1, MaxDedicated <- 1, Deadline <- FALSE, Handled <- FALSE, Abandons <- FALSE, MaxCrashes <- 1
Pool == INSTANCE NativeWorkers WITH closed <- shut, Tasks <- {"a", "d"}, Dedicated <- {}, Pooled <- {"p"},
    Moving <- {"a"}, Room <- 1, MaxDedicated <- 1, Deadline <- TRUE, Handled <- FALSE, Abandons <- FALSE, MaxCrashes <- 1
Parked == INSTANCE NativeWorkers WITH closed <- shut, Tasks <- {"a", "d"}, Dedicated <- {}, Pooled <- {"p"},
    Moving <- {"a"}, Room <- 1, MaxDedicated <- 1, Deadline <- FALSE, Handled <- TRUE, Abandons <- FALSE, MaxCrashes <- 0
Ending == INSTANCE NativeWorkers WITH closed <- shut, Tasks <- {"d"}, Dedicated <- {"d"}, Pooled <- {"p"},
    Moving <- {}, Room <- 1, MaxDedicated <- 1, Deadline <- FALSE, Handled <- TRUE, Abandons <- TRUE, MaxCrashes <- 1

AllInit ==
    /\ Init /\ Run!Init
    /\ \/ part \in {"bounded", "run", "blocking"} /\ Blocking!Init
       \/ part = "pool" /\ Pool!Init
       \/ part = "parked" /\ Parked!Init
       \/ part = "ending" /\ Ending!Init
BoundedStep(step) == part = "bounded" /\ step /\ UNCHANGED <<part, runVars, workerVars>>
RunStep(step) == part = "run" /\ step /\ UNCHANGED <<part, vars, workerVars>>
WorkerStep(which, step) == part = which /\ step /\ UNCHANGED <<part, vars, runVars>>
AllNext ==
    \/ BoundedStep(Next) \/ RunStep(Run!Next)
    \/ WorkerStep("blocking", Blocking!Next) \/ WorkerStep("pool", Pool!Next)
    \/ WorkerStep("parked", Parked!Next) \/ WorkerStep("ending", Ending!Next)

\* The fairness of BoundedQueue, and of NativeWorkers where the parent blocks.
AllFair ==
    /\ \A p \in Producers : WF_all(BoundedStep(PushWoken(p)))
    /\ \A c \in Consumers :
          WF_all(BoundedStep(PopWoken(c))) /\ WF_all(BoundedStep(PopNow(c) \/ PopWait(c, FALSE)))
    /\ WF_all(WorkerStep("blocking", Blocking!Runs) \/ WorkerStep("pool", Pool!Runs))
    /\ WF_all(WorkerStep("blocking", Blocking!Lane("p")) \/ WorkerStep("pool", Pool!Lane("p")))
    /\ WF_all(WorkerStep("blocking", Blocking!Lane("d")))
AllSpec == AllInit /\ [][AllNext]_all /\ AllFair

-----------------------------------------------------------------------------
\* The run queue implements what its users rely on: a FIFO of the runnable
\* children.  Its counters are exact however settling, taking and compaction
\* interleave, and no child is resumed for an entry it left behind.
RunImplements == Run!ImplementsFifo /\ [](part = "run" => Run!TypeOK /\ Run!CountsExact /\ Run!EntriesSound)

\* The workers of every instance keep what NativeWorkers promises: every reply
\* is routed once, past nobody who waits for it; a task taken back never runs;
\* what a result moved has an owner; a scope that closed leaves nothing behind.
WorkersSound ==
    /\ part = "blocking" => Blocking!WorkersSound
    /\ part = "pool" => Pool!WorkersSound
    /\ part = "parked" => Parked!WorkersSound
    /\ part = "ending" => Ending!WorkersSound

InWorkerCall(f) == part \in {"blocking", "pool"} /\ Blocking!InCall(f)
\* Every blocked push returns while consumers pop, after a close every blocked
\* pop does, and every await of a worker task and every close of a scope ends,
\* when lanes end early too.
CallsReturn ==
    /\ part = "bounded" => PushReturns /\ PopReturnsAfterClose
    /\ \A f \in {"a", "d", "close"} : InWorkerCall(f) ~> ~InWorkerCall(f)
=============================================================================
