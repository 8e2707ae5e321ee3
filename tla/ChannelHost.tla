----------------------------- MODULE ChannelHost -----------------------------
(***************************************************************************)
(* The endpoint tables of the page and of its worker lanes                 *)
(* (runtime/wasm/channel-host.mjs).  The page creates a channel as a       *)
(* resource of two ends and keeps a supervisor for each: a control port    *)
(* whose other side travels with the end.  An end dropped anywhere says    *)
(* "closed" to its supervisor; the supervisor says "remote-close" to the   *)
(* peer of a lost end and "abort" to both ends of a released resource.     *)
(* What the data ports carry is PortChannel's; here an end is only ready   *)
(* or not.                                                                 *)
(***************************************************************************)
EXTENDS Naturals, Sequences, FiniteSets

CONSTANTS
    Resources,      \* channels the page may create
    Lanes,          \* worker lanes, each with a host of its own
    MaxInterrupts,  \* bound: cancellations of a lane
    Loiters         \* may a taken end wait on the page for its lane to boot

VARIABLES
    place,          \* "none", "page", "transit", a lane, "closed" or "dead", per end
    entry,          \* is the end in the entries of the host at its place
    watch,          \* is a watch of the end outstanding
    ready,          \* has the watcher something to see: a value, a credit or a closure
    told,           \* has remoteClose run on the end
    supervisor,     \* "none", "live" or "done", per end
    resources,      \* the page's resource table
    toHost, toEnd,  \* what the control port of each end has yet to deliver
    cancelled, interrupts, \* the hosts' cancelled flags, cancellations so far
    closed          \* has the page's host closed

ports == <<toHost, toEnd>>
table == <<supervisor, resources>>
flags == <<cancelled, interrupts, closed>>
vars == <<place, entry, watch, ready, told, table, ports, flags>>

Ends == Resources \X {"sender", "receiver"}
Of(r) == {x \in Ends : x[1] = r}
Peer(x) == <<x[1], IF x[2] = "sender" THEN "receiver" ELSE "sender">>
Hosts == Lanes \union {"page"}
Entries(h) == {x \in Ends : place[x] = h /\ entry[x]}
Gone(x) == place[x] \in {"closed", "dead"}
Cleared(f, X) == [x \in Ends |-> IF x \in X THEN FALSE ELSE f[x]]

Init ==
    /\ place = [x \in Ends |-> "none"]
    /\ entry = [x \in Ends |-> FALSE] /\ watch = entry /\ ready = entry /\ told = entry
    /\ supervisor = [x \in Ends |-> "none"] /\ resources = {}
    /\ toHost = [x \in Ends |-> <<>>] /\ toEnd = toHost
    /\ cancelled = [h \in Hosts |-> FALSE] /\ interrupts = 0 /\ closed = FALSE

-----------------------------------------------------------------------------
\* finishSupervisor of each token of X: a pair goes when both are done.
Done(X) == {x \in Ends : supervisor[x] = "done" \/ (x \in X /\ supervisor[x] = "live")}
\* Mutant: a token goes alone and leaves its peer's behind.
PairOverAlone(X) == X
PairOver(X) == {x \in Done(X) : Peer(x) \in Done(X)}
FinishSupervisor(X) ==
    /\ supervisor' = [x \in Ends |-> IF x \in PairOver(X) THEN "none"
                                     ELSE IF x \in Done(X) THEN "done" ELSE supervisor[x]]
    /\ resources' = resources \ {x[1] : x \in PairOver(X)}

\* drop of each end of X: it closes, its watch finishes, its supervisor hears.
\* Mutant: the watch of a dropped end is left.
UnwatchNone(X) == watch
Unwatch(X) == Cleared(watch, X)
\* Mutant: a dropped end goes without a word.
HearsNothing(x) == FALSE
Hears(x) == supervisor[x] # "none"
Drop(X) ==
    /\ place' = [x \in Ends |-> IF x \in X THEN "closed" ELSE place[x]]
    /\ entry' = Cleared(entry, X) /\ watch' = Unwatch(X)
    /\ toHost' = [x \in Ends |-> IF x \in X /\ Hears(x) THEN Append(toHost[x], "closed") ELSE toHost[x]]

\* Messages to ends: those in P hear m, those in X no longer listen.
Sent(P, m, X) == [x \in Ends |-> IF x \in X THEN <<>> ELSE IF x \in P THEN Append(toEnd[x], m) ELSE toEnd[x]]

\* revoke: the peers of the live tokens of X are told that their owner is gone.
\* Mutant: the token is finished and its peer is not told.
OrphansUntold(X) == {}
Orphans(X) == {Peer(x) : x \in {y \in X : supervisor[y] = "live"}}

-----------------------------------------------------------------------------
Create(r) ==
    /\ ~closed /\ \A x \in Of(r) : place[x] = "none"
    /\ place' = [x \in Ends |-> IF x \in Of(r) THEN "page" ELSE place[x]]
    /\ entry' = [x \in Ends |-> entry[x] \/ x \in Of(r)]
    /\ supervisor' = [x \in Ends |-> IF x \in Of(r) THEN "live" ELSE supervisor[x]]
    /\ resources' = resources \union {r}
    /\ UNCHANGED <<watch, ready, told, ports, flags>>

\* release: what the page still holds is dropped, what has moved is told to abort.
\* Mutant: only what the page still holds goes.
AbortNobody(r) == toEnd
Abort(r) == Sent(Of(r), "abort", Of(r) \intersect Entries("page"))
Release(r) ==
    /\ ~closed /\ r \in resources
    /\ LET held == Of(r) \intersect Entries("page") IN
       /\ place' = [x \in Ends |-> IF x \in held THEN "closed" ELSE place[x]]
       /\ entry' = Cleared(entry, held) /\ watch' = Cleared(watch, held)
    /\ toEnd' = Abort(r)
    /\ supervisor' = [x \in Ends |-> IF x \in Of(r) THEN "none" ELSE supervisor[x]]
    /\ toHost' = [x \in Ends |-> IF x \in Of(r) THEN <<>> ELSE toHost[x]]
    /\ resources' = resources \ {r}
    /\ UNCHANGED <<ready, told, flags>>

CloseHandle(x) ==
    /\ entry[x] /\ Drop({x}) /\ toEnd' = Sent({}, "", {x})
    /\ UNCHANGED <<ready, told, table, flags>>

\* A supervisor's port delivers "closed".
SupervisorHears(x) ==
    /\ toHost[x] # <<>> /\ toHost' = [toHost EXCEPT ![x] = Tail(@)]
    /\ FinishSupervisor({x})
    /\ UNCHANGED <<place, entry, watch, ready, told, toEnd, flags>>

\* The control port of an installed end delivers: "remote-close" or "abort".
EndHears(x) ==
    /\ entry[x] /\ toEnd[x] # <<>>
    /\ IF Head(toEnd[x]) = "abort" THEN Drop({x}) /\ toEnd' = Sent({}, "", {x}) /\ UNCHANGED <<ready, told>>
       ELSE /\ told' = [told EXCEPT ![x] = TRUE] /\ ready' = [ready EXCEPT ![x] = TRUE]
            /\ watch' = Cleared(watch, {x})
            /\ toEnd' = [toEnd EXCEPT ![x] = Tail(@)] /\ UNCHANGED <<place, entry, toHost>>
    /\ UNCHANGED <<table, flags>>

\* The data port brings a value, a credit or a closure: an observing watch finishes.
Arrives(x) ==
    /\ entry[x] /\ ~ready[x] /\ ready' = [ready EXCEPT ![x] = TRUE] /\ watch' = Cleared(watch, {x})
    /\ UNCHANGED <<place, entry, told, table, ports, flags>>

\* send, consume: the guest uses what the watch reported, unless the end is closed.
Use(x) ==
    /\ entry[x] /\ ready[x] /\ ~told[x] /\ place[Peer(x)] # "closed"
    /\ ready' = [ready EXCEPT ![x] = FALSE]
    /\ UNCHANGED <<place, entry, watch, told, table, ports, flags>>

\* watch: polls first, so a cancelled host and a ready end answer at once.
\* Mutant: the first poll forgets that the host was cancelled.
MustWatchCancelled(x) == ~ready[x]
MustWatch(x) == ~cancelled[place[x]] /\ ~ready[x]
Watch(x) ==
    /\ entry[x] /\ ~watch[x] /\ MustWatch(x) /\ watch' = [watch EXCEPT ![x] = TRUE]
    /\ UNCHANGED <<place, entry, ready, told, table, ports, flags>>

\* Mutant: a taken end stays in the table.
StaysInTable(X) == entry
LeavesTable(X) == Cleared(entry, X)
\* take of the ends X for one task: watches finish, listeners go; an end that
\* cannot move drops them all.
Take(X) ==
    /\ X # {} /\ X \subseteq Entries("page")
    /\ place' = [x \in Ends |-> IF x \in X THEN "transit" ELSE place[x]]
    /\ entry' = LeavesTable(X) /\ watch' = Cleared(watch, X)
    /\ UNCHANGED <<ready, told, table, ports, flags>>
TakeFails(X) ==
    /\ X # {} /\ X \subseteq Entries("page") /\ Drop(X) /\ toEnd' = Sent({}, "", X)
    /\ UNCHANGED <<ready, told, table, flags>>

\* The control port of a taken end is started and has no listener.
Lose(x) ==
    /\ Loiters /\ place[x] = "transit" /\ toEnd[x] # <<>>
    /\ toEnd' = [toEnd EXCEPT ![x] = Tail(@)]
    /\ UNCHANGED <<place, entry, watch, ready, told, table, toHost, flags>>

\* The pool posts a task's ends to a lane; the lane adopts them.
Post(x, l) ==
    /\ place[x] = "transit" /\ place' = [place EXCEPT ![x] = l]
    /\ UNCHANGED <<entry, watch, ready, told, table, ports, flags>>
Adopt(x) ==
    /\ place[x] \in Lanes /\ ~entry[x] /\ entry' = [entry EXCEPT ![x] = TRUE]
    /\ UNCHANGED <<place, watch, ready, told, table, ports, flags>>

\* discard, on the page, of an end that no lane took.
Discard(x) ==
    /\ place[x] = "transit" /\ place' = [place EXCEPT ![x] = "closed"]
    /\ FinishSupervisor({x})
    /\ toEnd' = Sent(Orphans({x}), "remote-close", {x})
    /\ toHost' = [toHost EXCEPT ![x] = IF Hears(x) /\ x \notin PairOver({x}) THEN Append(@, "closed") ELSE <<>>]
    /\ UNCHANGED <<entry, watch, ready, told, flags>>

\* settle: a lane that replies drops all it holds.
Settle(l) ==
    /\ Entries(l) # {} /\ Drop(Entries(l)) /\ toEnd' = Sent({}, "", Entries(l))
    /\ UNCHANGED <<ready, told, table, flags>>

\* A lane is terminated: its ends go without a word, and the pool revokes their tokens.
LaneDies(l) ==
    LET X == {x \in Ends : place[x] = l} IN
    /\ X # {}
    /\ place' = [x \in Ends |-> IF x \in X THEN "dead" ELSE place[x]]
    /\ entry' = Cleared(entry, X) /\ watch' = Cleared(watch, X)
    /\ FinishSupervisor(X)
    /\ toEnd' = Sent(Orphans(X), "remote-close", X)
    /\ UNCHANGED <<ready, told, toHost, flags>>

\* interrupt, and reset when the lane takes its next task.
Interrupt(l) ==
    /\ interrupts < MaxInterrupts /\ interrupts' = interrupts + 1
    /\ cancelled' = [cancelled EXCEPT ![l] = TRUE] /\ watch' = Cleared(watch, Entries(l))
    /\ UNCHANGED <<place, entry, ready, told, table, ports, closed>>
Reset(l) ==
    /\ cancelled[l] /\ Entries(l) = {} /\ cancelled' = [cancelled EXCEPT ![l] = FALSE]
    /\ UNCHANGED <<place, entry, watch, ready, told, table, ports, interrupts, closed>>

\* close of the page's host: every end it holds is dropped, every token revoked.
CloseHost ==
    /\ ~closed /\ closed' = TRUE
    /\ LET X == Entries("page") IN
       /\ place' = [x \in Ends |-> IF x \in X THEN "closed" ELSE place[x]]
       /\ entry' = Cleared(entry, X) /\ watch' = Cleared(watch, X)
       /\ toEnd' = Sent(Orphans(Ends), "remote-close", X)
    /\ supervisor' = [x \in Ends |-> "none"] /\ resources' = {}
    /\ toHost' = [x \in Ends |-> <<>>]
    /\ UNCHANGED <<ready, told, cancelled, interrupts>>

Next ==
    \/ \E r \in Resources : Create(r) \/ Release(r)
    \/ \E x \in Ends :
          \/ CloseHandle(x) \/ SupervisorHears(x) \/ EndHears(x) \/ Arrives(x) \/ Use(x)
          \/ Watch(x) \/ Lose(x) \/ Adopt(x) \/ Discard(x)
          \/ \E l \in Lanes : Post(x, l)
    \/ \E X \in SUBSET Ends : Take(X) \/ TakeFails(X)
    \/ \E l \in Lanes : Settle(l) \/ LaneDies(l) \/ Interrupt(l) \/ Reset(l)
    \/ CloseHost

\* Control ports deliver, and an end on its way to a lane gets there or is discarded.
Fairness == \A x \in Ends :
    /\ WF_vars(SupervisorHears(x)) /\ WF_vars(EndHears(x)) /\ WF_vars(Adopt(x))
    /\ WF_vars(Discard(x) \/ \E l \in Lanes : Post(x, l))

Spec == Init /\ [][Next]_vars
FairSpec == Spec /\ Fairness

-----------------------------------------------------------------------------
TypeOK ==
    /\ place \in [Ends -> Hosts \union {"none", "transit", "closed", "dead"}]
    /\ \A f \in {entry, watch, ready, told} : f \in [Ends -> BOOLEAN]
    /\ \A x \in Ends : entry[x] => place[x] \in Hosts
    /\ supervisor \in [Ends -> {"none", "live", "done"}]
    /\ resources \subseteq Resources /\ closed \in BOOLEAN

\* A watch belongs to an installed end that has nothing to show, of a host that
\* is not cancelled: dropping, moving, aborting, losing the peer and cancelling
\* each settle it, so no guest waits for a watch nobody will finish.
WatchesSound ==
    \A x \in Ends : watch[x] => entry[x] /\ ~ready[x] /\ ~cancelled[place[x]]

\* The page's tables agree: a resource is there exactly while both of its
\* supervisors are, and never with both done.
TablesAgree ==
    \A r \in Resources :
        /\ \A x \in Of(r) : r \in resources <=> supervisor[x] # "none"
        /\ \E x \in Of(r) : supervisor[x] # "done"

\* While the page's host runs, an end without a live supervisor is gone, or an
\* order to abort is on its way to it: no end outlives its resource.
NoStray ==
    \A x \in Ends : place[x] # "none" /\ supervisor[x] # "live" /\ ~closed
        => Gone(x) \/ "abort" \in {toEnd[x][i] : i \in DOMAIN toEnd[x]}

\* A resource whose two ends are gone leaves the page's tables.
NoLeak == \A r \in Resources : (\A x \in Of(r) : Gone(x)) ~> r \notin resources

\* The end of a lane that died is missed by the other: it is told or goes too.
LossReported == \A x \in Ends : place[x] = "dead" ~> told[Peer(x)] \/ Gone(Peer(x))
=============================================================================
