------------------------- MODULE MCBrowserChannels -------------------------
(***************************************************************************)
(* The browser's channels, the tables of their ends and the pool of worker *)
(* lanes, when an end that was moved or taken leaves for its guest at once *)
(* and everyone goes on.  They share no state here: a behaviour is one of  *)
(* one component, named by `part`, and the others stay as they start.      *)
(***************************************************************************)
EXTENDS PortChannel

CONSTANTS la, lb

VARIABLES
    part,
    place, entry, watch, ready, told, supervisor, resources, toHost, toEnd, cancelled, interrupts, hostClosed,
    pool, worker, current, interrupted, toPage, crashes

hostVars == <<place, entry, watch, ready, told, supervisor, resources, toHost, toEnd, cancelled, interrupts, hostClosed>>
poolVars == <<pool, worker, current, interrupted, toPage, crashes>>
all == <<part, vars, hostVars, poolVars>>

\* A channel between the page and two lanes.
Host == INSTANCE ChannelHost WITH
    Resources <- {1}, Lanes <- {la, lb}, MaxInterrupts <- 2, Loiters <- FALSE, closed <- hostClosed
\* Three tasks over one lane, which may end.
Pool == INSTANCE WorkerPool WITH
    Tasks <- {"t1", "t2", "t3"}, Carriers <- {}, Dedicated <- {}, Capacity <- 1, MaxDedicated <- 1,
    Opens <- 2, Unopenable <- {}, MaxCrashes <- 1, IdleFails <- FALSE

AllInit == part \in {"port", "host", "pool"} /\ Init /\ Host!Init /\ Pool!Init

PortStep(step) == part = "port" /\ step /\ UNCHANGED <<part, hostVars, poolVars>>
HostStep(step) == part = "host" /\ step /\ UNCHANGED <<part, vars, poolVars>>
PoolStep(step) == part = "pool" /\ step /\ UNCHANGED <<part, vars, hostVars>>
AllNext == PortStep(Next) \/ HostStep(Host!Next) \/ PoolStep(Pool!Next)

\* The fairness of each component, for the one that moves: ports deliver,
\* taken ends are posted and adopted; lanes boot, hear and reply.
AllFair ==
    /\ WF_all(PortStep(SenderArrives)) /\ WF_all(PortStep(ReceiverArrives))
    /\ \A e \in Ends :
          /\ WF_all(PortStep(Ship(e))) /\ WF_all(PortStep(RemoteClose(e)))
          /\ WF_all(PortStep(\E g \in 1..MaxGeneration : AdoptPortEndpoint(e, g)))
    /\ \A x \in Host!Ends :
          /\ WF_all(HostStep(Host!SupervisorHears(x))) /\ WF_all(HostStep(Host!EndHears(x)))
          /\ WF_all(HostStep(Host!Adopt(x)))
          /\ WF_all(HostStep(Host!Discard(x) \/ \E l \in {la, lb} : Host!Post(x, l)))
    /\ \A l \in Pool!Workers :
          /\ WF_all(PoolStep(Pool!PageHears(l))) /\ WF_all(PoolStep(Pool!LaneReady(l)))
          /\ WF_all(PoolStep(Pool!LaneHears(l))) /\ WF_all(PoolStep(Pool!LaneReplies(l, "done")))

AllSpec == AllInit /\ [][AllNext]_all /\ AllFair

-----------------------------------------------------------------------------
\* That an end is gone reaches the other end wherever it was moved; the page
\* forgets a channel whose ends are gone, no end outlives its resource, and the
\* end of a lane that died is missed by its peer.
LossReaches ==
    /\ part = "port" => EndReaches
    /\ part = "host" => []Host!NoStray /\ Host!NoLeak /\ Host!LossReported

\* No task waits while a lane could take it; every accepted task settles, though
\* its lane ends, and no late reply, failure or closing changes its result.
TasksSettle ==
    /\ Pool!SettledOnce
    /\ part = "pool" => []Pool!NoIdleWait /\ Pool!AllSettle
=============================================================================
