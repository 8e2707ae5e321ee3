----------------------------- MODULE AssetLoad -----------------------------
(***************************************************************************)
(* Loading a packaged browser application (runtime/luajit/app-runtime.mjs  *)
(* runPackagedNuppLuaJITApp, assets.mjs, aot.mjs createKernels, native.mjs)*)
(* while the server it comes from is given new builds: the page fetches    *)
(* the manifest and the assets it names, and so does each worker lane the  *)
(* page starts later.  Bytes are the build they belong to, and whether     *)
(* they arrived whole.                                                     *)
(***************************************************************************)
EXTENDS Naturals, Sequences

CONSTANTS
    Lanes,
    Order,          \* the assets a reader asks for, one after the other
    Fixed,          \* those whose name holds their digest
    Delivery,       \* name -> the name it is delivered under, itself when not encoded
    LaneFile,       \* the lane's script
    MaxBuilds, MaxFaults

Names == {Order[i] : i \in DOMAIN Order} \cup {Delivery[n] : n \in DOMAIN Delivery} \cup {LaneFile}
Page == "page"
ASSUME AssetAssumption ==
    /\ Order \in Seq(Names) /\ Fixed \subseteq Names /\ {MaxBuilds, MaxFaults} \subseteq Nat /\ Page \notin Lanes
    \* verified refuses a chain of encodings ("Cyclic guest asset encoding").
    /\ DOMAIN Delivery = Names /\ \A n \in Names : Delivery[Delivery[n]] = Delivery[n]

Readers == Lanes \cup {Page}
None == 0

VARIABLES
    atomic,         \* does a deploy replace every file at once
    served,         \* the build of each file the server has, "manifest" among them
    state,          \* of a reader: "idle", "manifest", "loading", "running", "failed"
    at,             \* the asset it is at
    manifest,       \* the build of its manifest
    script,         \* the build of the script a lane was started from
    memo,           \* assets it asked for: "none", "asked", "ok", "failed"
    got,            \* the build of what it was handed
    fetch,          \* the fetch it awaits: a name and what the server sent
    fetched,        \* how often it fetched each
    faults

vars == <<atomic, served, state, at, manifest, script, memo, got, fetch, fetched, faults>>

Files == Names \cup {"manifest"}
Nothing == [n \in Names |-> None]
Init ==
    /\ atomic \in BOOLEAN /\ served = [f \in Files |-> 1] /\ state = [r \in Readers |-> "idle"]
    /\ at = [r \in Readers |-> 1] /\ manifest = [r \in Readers |-> None] /\ script = [r \in Readers |-> None]
    /\ memo = [r \in Readers |-> [n \in Names |-> "none"]] /\ got = [r \in Readers |-> Nothing]
    /\ fetch = [r \in Readers |-> <<>>] /\ fetched = [r \in Readers |-> Nothing] /\ faults = 0

\* A new build is published, at once or a file at a time.
Deploy(f) ==
    /\ served[f] < MaxBuilds
    /\ served' = IF atomic THEN [g \in Files |-> served[g] + 1] ELSE [served EXCEPT ![f] = @ + 1]
    /\ UNCHANGED <<atomic, state, at, manifest, script, memo, got, fetch, fetched, faults>>

\* The page starts; a lane does once the page runs, from the script's address.
Start(r) ==
    /\ state[r] = "idle" /\ (r # Page => state[Page] = "running")
    /\ state' = [state EXCEPT ![r] = "manifest"] /\ script' = [script EXCEPT ![r] = served[LaneFile]]
    /\ UNCHANGED <<atomic, served, at, manifest, memo, got, fetch, fetched, faults>>

\* The manifest; a lane's must be the one its page has.
\* Mutant: a lane takes whatever manifest the server has.
PinnedNone(r, b) == TRUE
Pinned(r, b) == r # Page => b = manifest[Page]
ReadManifest(r) ==
    /\ state[r] = "manifest" /\ manifest' = [manifest EXCEPT ![r] = served["manifest"]]
    /\ state' = [state EXCEPT ![r] = IF Pinned(r, served["manifest"]) THEN "loading" ELSE "failed"]
    /\ UNCHANGED <<atomic, served, at, script, memo, got, fetch, fetched, faults>>

-----------------------------------------------------------------------------
\* verified: the next asset is asked for, and fetched under the name it is
\* delivered by unless that name was asked for before.
\* The page asks for its lanes' script last; a lane has no pool.
Asks(r) == IF r = Page THEN Append(Order, LaneFile) ELSE Order
Wanted(r) == Asks(r)[at[r]]
\* Mutant: assets are asked for before the manifest is known to be right.
LoadingEarly(r) == state[r] # "idle" /\ at[r] <= Len(Asks(r)) /\ fetch[r] = <<>>
Loading(r) == state[r] = "loading" /\ at[r] <= Len(Asks(r)) /\ fetch[r] = <<>>
\* Mutant: an asset asked for again is fetched again.
KnownNever(r, n) == FALSE
Known(r, n) == memo[r][n] = "ok"
Ask(r) ==
    LET n == Delivery[Wanted(r)]
        sent == IF n \in Fixed THEN manifest[r] ELSE served[n] IN
    /\ Loading(r)
    /\ \/ /\ Known(r, n) /\ at' = [at EXCEPT ![r] = @ + 1]
          /\ memo' = [memo EXCEPT ![r][Wanted(r)] = "ok"] /\ got' = [got EXCEPT ![r][Wanted(r)] = got[r][n]]
          /\ UNCHANGED <<fetch, fetched>>
       \/ /\ ~Known(r, n) /\ fetch' = [fetch EXCEPT ![r] = <<n, sent>>]
          /\ memo' = [memo EXCEPT ![r][Wanted(r)] = "asked", ![r][n] = "asked"]
          /\ fetched' = [fetched EXCEPT ![r][n] = @ + 1] /\ UNCHANGED <<at, got>>
    /\ UNCHANGED <<atomic, served, state, manifest, script, faults>>

\* The bytes, of the size and with the digest the manifest records.
\* Mutant: the size is compared and the digest is not.
MatchesSize(r, whole) == whole
Matches(r, whole) == whole /\ fetch[r][2] = manifest[r]
Arrive(r, whole) ==
    LET n == fetch[r][1]
        ok == Matches(r, whole) IN
    /\ fetch[r] # <<>> /\ fetch' = [fetch EXCEPT ![r] = <<>>]
    /\ (~whole => faults < MaxFaults) /\ faults' = IF whole THEN faults ELSE faults + 1
    /\ memo' = [memo EXCEPT ![r][Wanted(r)] = IF ok THEN "ok" ELSE "failed", ![r][n] = IF ok THEN "ok" ELSE "failed"]
    /\ got' = IF ok THEN [got EXCEPT ![r][Wanted(r)] = fetch[r][2], ![r][n] = fetch[r][2]] ELSE got
    /\ state' = [state EXCEPT ![r] = IF ok THEN @ ELSE "failed"]
    /\ at' = IF ok THEN [at EXCEPT ![r] = @ + 1] ELSE at
    /\ UNCHANGED <<atomic, served, manifest, script, fetched>>

\* Everything is there: the application, or the lane's loop, runs.
Run(r) ==
    /\ state[r] = "loading" /\ at[r] > Len(Asks(r)) /\ fetch[r] = <<>>
    /\ state' = [state EXCEPT ![r] = "running"]
    /\ UNCHANGED <<atomic, served, at, manifest, script, memo, got, fetch, fetched, faults>>

\* The page's run ends: the pool is closed, and its lanes with it.
\* Mutant: the lanes are left running.
ClosedPage(r) == r = Page
Closed(r) == TRUE
End ==
    /\ state[Page] = "running"
    /\ state' = [r \in Readers |-> IF Closed(r) THEN "failed" ELSE state[r]]
    /\ fetch' = [r \in Readers |-> <<>>]
    /\ UNCHANGED <<atomic, served, at, manifest, script, memo, got, fetched, faults>>

Next ==
    \/ \E f \in Files : Deploy(f)
    \/ \E r \in Readers : \/ Start(r) \/ ReadManifest(r) \/ Ask(r) \/ (\E whole \in BOOLEAN : Arrive(r, whole)) \/ Run(r)
    \/ End
Spec == Init /\ [][Next]_vars

-----------------------------------------------------------------------------
\* A fetch is awaited by a reader that loads.
TypeOK == \A r \in Readers :
    /\ state[r] \in {"idle", "manifest", "loading", "running", "failed"}
    /\ fetch[r] # <<>> => state[r] = "loading"

\* What a reader was handed is of the build its manifest names, whatever the
\* server was given in the meantime.
Verified == \A r \in Readers, n \in Names : got[r][n] \in {None, manifest[r]}

\* A lane runs the page's build, or does not run.
OneBuild == \A r \in Lanes : state[r] \in {"loading", "running"} /\ state[Page] = "running" => manifest[r] = manifest[Page]

\* Its script too, where deploys are atomic: the page checked the script's
\* bytes, the browser fetched them again.
ScriptOfBuild == \A r \in Lanes : atomic /\ state[r] = "running" => script[r] = manifest[Page]

\* An asset is fetched once by each reader.
FetchedOnce == \A r \in Readers, n \in Names : fetched[r][n] <= 1

\* No lane is left when the page's run has ended.
LanesEnd == \A r \in Lanes : state[r] \in {"manifest", "loading", "running"} => state[Page] = "running"

\* Everyone runs the bytes of one build, fetched once, or does not run.
OneBuildRuns == TypeOK /\ Verified /\ OneBuild /\ ScriptOfBuild /\ FetchedOnce /\ LanesEnd
=============================================================================
