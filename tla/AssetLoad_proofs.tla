-------------------------- MODULE AssetLoad_proofs --------------------------
(***************************************************************************)
(* Proofs about AssetLoad: for any number of lanes, assets and builds, a   *)
(* reader is handed only what its manifest names, and a lane runs only the *)
(* build of its page.                                                      *)
(***************************************************************************)
EXTENDS AssetLoad, TLAPS

States == {"idle", "manifest", "loading", "running", "failed"}
Memos == {"none", "asked", "ok", "failed"}

Shapes ==
    /\ atomic \in BOOLEAN /\ served \in [Files -> Nat] /\ state \in [Readers -> States]
    /\ manifest \in [Readers -> Nat] /\ script \in [Readers -> Nat] /\ got \in [Readers -> [Names -> Nat]]
    /\ DOMAIN fetch = Readers /\ at \in [Readers -> Nat \ {0}]
    /\ memo \in [Readers -> [Names -> Memos]] /\ fetched \in [Readers -> [Names -> Nat]]

\* A reader fetches only while it loads, and is handed nothing before.
FetchLoads == \A r \in Readers : fetch[r] # <<>> => state[r] = "loading"
EmptyBefore == \A r \in Readers : state[r] \in {"idle", "manifest"} => \A n \in Names : got[r][n] = None

\* Lanes wait for the page.
LanesWait == state[Page] \in {"idle", "manifest", "loading"} => \A r \in Lanes : state[r] = "idle"

\* A lane that got past the manifest has the page's.
LanePinned == \A r \in Lanes : state[r] \in {"loading", "running"} => manifest[r] = manifest[Page]

\* Builds only grow: where deploys are atomic, what a lane read lies between
\* the page's build and the server's.
ServedOne == atomic => \A f \in Files : served[f] = served["manifest"]
ManifestOld == \A r \in Readers : manifest[r] <= served["manifest"]
ScriptBetween == \A r \in Lanes : atomic /\ state[r] \in {"manifest", "loading", "running"} =>
    manifest[Page] <= script[r] /\ script[r] <= served["manifest"]
ScriptFirst == \A r \in Lanes : atomic /\ state[r] \in {"loading", "running"} => script[r] <= manifest[r]

\* Only what delivers itself is fetched, once: since, it has come, or is on
\* its way, or its reader has failed.
FetchedBy == \A r \in Readers, n \in Names : fetched[r][n] # 0 =>
    /\ fetched[r][n] = 1 /\ Delivery[n] = n
    /\ memo[r][n] = "ok" \/ (fetch[r] # <<>> /\ fetch[r][1] = n) \/ state[r] = "failed"

IInv ==
    /\ FetchedBy
    /\ Shapes /\ FetchLoads /\ EmptyBefore /\ Verified /\ LanesWait /\ LanePinned
    /\ ServedOne /\ ManifestOld /\ ScriptBetween /\ ScriptFirst /\ LanesEnd

LEMMA PageReader == Page \in Readers /\ Page \notin Lanes /\ Lanes \subseteq Readers
                    /\ "manifest" \in Files /\ LaneFile \in Files
BY AssetAssumption DEF Readers, Files, Names

\* What a reader asks for is an asset, and so is what delivers it.
LEMMA Delivered == \A n \in Names : Delivery[n] \in Names
BY AssetAssumption DEF Names

LEMMA WantedName == ASSUME Shapes, NEW r \in Readers, at[r] <= Len(Asks(r)) PROVE Wanted(r) \in Names
<1>1. Order \in Seq(Names) /\ LaneFile \in Names BY AssetAssumption DEF Names
<1>2. Asks(r) \in Seq(Names) BY <1>1 DEF Asks
<1>3. at[r] \in 1..Len(Asks(r)) BY <1>2 DEF Shapes
<1> QED BY <1>2, <1>3 DEF Wanted

\* What two of a reader's names are marked with.
Both(r, x, y, v) == [memo EXCEPT ![r][x] = v, ![r][y] = v]
LEMMA BothMarked ==
    ASSUME memo \in [Readers -> [Names -> Memos]], NEW r \in Readers, NEW x, NEW y, NEW v \in Memos
    PROVE  /\ Both(r, x, y, v) \in [Readers -> [Names -> Memos]]
           /\ \A q \in Readers, m \in Names :
                 Both(r, x, y, v)[q][m] = IF q = r /\ m \in {x, y} THEN v ELSE memo[q][m]
<1> DEFINE h == [memo EXCEPT ![r][x] = v]
<1> DEFINE g == [h EXCEPT ![r][y] = v]
<1>1. h \in [Readers -> [Names -> Memos]]
      /\ \A q \in Readers, m \in Names : h[q][m] = IF q = r /\ m = x THEN v ELSE memo[q][m]
  OBVIOUS
<1>0. g = Both(r, x, y, v) BY DEF Both
<1> HIDE DEF h
<1>2. g \in [Readers -> [Names -> Memos]]
      /\ \A q \in Readers, m \in Names : g[q][m] = IF q = r /\ m = y THEN v ELSE h[q][m]
  BY <1>1
<1> HIDE DEF g
<1> QED BY <1>0, <1>1, <1>2

LEMMA InitInv == Init => IInv
BY PageReader DEF FetchedBy, Init, IInv, Shapes, FetchLoads, EmptyBefore, Verified, LanesWait, LanePinned, ServedOne,
   ManifestOld, ScriptBetween, ScriptFirst, LanesEnd, Nothing, None, States, Memos

\* A deploy changes what is served, upwards.
LEMMA DeployInv == ASSUME IInv, NEW f \in Files, Deploy(f) PROVE IInv'
<1> USE PageReader
<1>1. served' \in [Files -> Nat] /\ served'["manifest"] >= served["manifest"]
  BY DEF IInv, Shapes, Deploy
<1>2. ServedOne' BY DEF IInv, Shapes, ServedOne, Deploy
<1>3. ManifestOld' BY <1>1 DEF IInv, Shapes, ManifestOld, Deploy
<1>4. ScriptBetween' BY <1>1 DEF IInv, Shapes, ScriptBetween, Deploy
<1> QED BY <1>1, <1>2, <1>3, <1>4 DEF IInv, Shapes, FetchLoads, EmptyBefore, Verified, LanesWait, LanePinned,
   FetchedBy, ScriptFirst, LanesEnd, Deploy

LEMMA StartInv == ASSUME IInv, NEW r \in Readers, Start(r) PROVE IInv'
<1> USE PageReader DEF IInv, Shapes, Start, States
<1>1. Shapes' /\ FetchLoads' /\ EmptyBefore' BY DEF FetchLoads, EmptyBefore
<1>2. Verified' /\ ServedOne' /\ ManifestOld' BY DEF Verified, ServedOne, ManifestOld
<1>3. LanesWait' /\ LanePinned' /\ LanesEnd' BY DEF LanesWait, LanePinned, LanesEnd
<1>4. ScriptBetween'
  <2> SUFFICES ASSUME NEW l \in Lanes, atomic, state'[l] \in {"manifest", "loading", "running"}
               PROVE manifest[Page] <= script'[l] /\ script'[l] <= served["manifest"]
    BY DEF ScriptBetween
  <2>1. CASE l = r BY <2>1 DEF ServedOne, ManifestOld
  <2>2. CASE l # r BY <2>2 DEF ScriptBetween
  <2> QED BY <2>1, <2>2
<1>5. ScriptFirst' BY DEF ScriptFirst
<1>6. FetchedBy' BY DEF FetchedBy
<1> QED BY <1>1, <1>2, <1>3, <1>4, <1>5, <1>6

LEMMA ReadManifestInv == ASSUME IInv, NEW r \in Readers, ReadManifest(r) PROVE IInv'
<1> USE PageReader DEF IInv, Shapes, ReadManifest, States, Pinned
<1>1. Shapes' /\ FetchLoads' /\ EmptyBefore' BY DEF FetchLoads, EmptyBefore
<1>2. Verified' BY DEF Verified, EmptyBefore, None
<1>3. ServedOne' /\ ManifestOld' BY DEF ServedOne, ManifestOld
<1>4. LanesWait' /\ LanesEnd' BY DEF LanesWait, LanesEnd
<1>5. LanePinned' BY DEF LanesWait, LanePinned
<1>6. ScriptBetween' BY DEF LanesWait, ScriptBetween
<1>7. ScriptFirst' BY DEF LanesWait, ScriptFirst, ScriptBetween
<1>8. FetchedBy' BY DEF FetchedBy
<1> QED BY <1>1, <1>2, <1>3, <1>4, <1>5, <1>6, <1>7, <1>8

\* The name an asset is delivered by was not fetched if it is not known; the
\* asset's own name never is when it is another.
LEMMA AskInv == ASSUME IInv, NEW r \in Readers, Ask(r) PROVE IInv'
<1> DEFINE w == Wanted(r)
<1> DEFINE n == Delivery[w]
<1>1. w \in Names /\ n \in Names /\ Delivery[n] = n
  BY WantedName, Delivered, AssetAssumption DEF IInv, Ask, Loading
<1>2. state[r] = "loading" /\ fetch[r] = <<>> BY DEF Ask, Loading
<1>3. UNCHANGED <<atomic, served, state, manifest, script>> BY DEF Ask
<1>4. CASE Known(r, n)
  <2>1. at' = [at EXCEPT ![r] = @ + 1] /\ memo' = [memo EXCEPT ![r][w] = "ok"]
        /\ got' = [got EXCEPT ![r][w] = got[r][n]] /\ UNCHANGED <<fetch, fetched>>
    BY <1>4 DEF Ask
  <2> HIDE DEF w, n
  <2>7. memo' \in [Readers -> [Names -> Memos]] BY <2>1 DEF IInv, Shapes, Memos
  <2>2. Shapes' BY <1>1, <1>3, <2>1, <2>7 DEF IInv, Shapes
  <2>3. FetchLoads' BY <1>3, <2>1 DEF IInv, FetchLoads
  <2>4. EmptyBefore' BY <1>1, <1>2, <1>3, <2>1 DEF IInv, Shapes, EmptyBefore
  <2>5. Verified' BY <1>1, <1>3, <2>1 DEF IInv, Shapes, Verified
  <2>6. FetchedBy' BY <1>3, <2>1 DEF IInv, Shapes, FetchedBy
  <2> QED BY <1>3, <2>2, <2>3, <2>4, <2>5, <2>6 DEF IInv, LanesWait, LanePinned, ServedOne, ManifestOld,
        ScriptBetween, ScriptFirst, LanesEnd
<1>5. CASE ~Known(r, n)
  <2>1. /\ DOMAIN fetch' = Readers /\ fetch'[r] # <<>> /\ fetch'[r][1] = n
        /\ \A q \in Readers : q # r => fetch'[q] = fetch[q]
    BY <1>5 DEF IInv, Shapes, Ask
  <2>2. memo' = [memo EXCEPT ![r][w] = "asked", ![r][n] = "asked"]
        /\ fetched' = [fetched EXCEPT ![r][n] = @ + 1] /\ UNCHANGED <<at, got>>
    BY <1>5 DEF Ask
  <2>3. memo[r][n] # "ok" BY <1>5 DEF Known
  <2>4. fetched[r][n] = 0 BY <1>1, <1>2, <2>3 DEF IInv, Shapes, FetchedBy
  <2>5. w # n => fetched[r][w] = 0 BY <1>1 DEF IInv, Shapes, FetchedBy
  <2> HIDE DEF w, n
  <2>11. memo' = Both(r, w, n, "asked") /\ "asked" \in Memos BY <2>2 DEF Both, Memos
  <2>9. /\ memo' \in [Readers -> [Names -> Memos]]
        /\ \A q \in Readers, m \in Names : memo'[q][m] = IF q = r /\ m \in {w, n} THEN "asked" ELSE memo[q][m]
    BY <2>11, BothMarked DEF IInv, Shapes
  <2>10. /\ fetched' \in [Readers -> [Names -> Nat]]
         /\ \A q \in Readers, m \in Names : fetched'[q][m] = IF q = r /\ m = n THEN fetched[q][m] + 1 ELSE fetched[q][m]
    BY <1>1, <2>2 DEF IInv, Shapes
  <2>6. Shapes' BY <1>3, <2>1, <2>2, <2>9, <2>10 DEF IInv, Shapes
  <2>7. FetchLoads' BY <1>2, <1>3, <2>1 DEF IInv, FetchLoads
  <2>8. FetchedBy'
    <3> SUFFICES ASSUME NEW q \in Readers, NEW m \in Names, fetched'[q][m] # 0
                 PROVE /\ fetched'[q][m] = 1 /\ Delivery[m] = m
                       /\ memo'[q][m] = "ok" \/ (fetch'[q] # <<>> /\ fetch'[q][1] = m) \/ state'[q] = "failed"
      BY DEF FetchedBy
    <3>1. CASE q # r
      <4>1. fetched'[q][m] = fetched[q][m] /\ memo'[q][m] = memo[q][m] BY <3>1, <2>9, <2>10
      <4> QED BY <3>1, <4>1, <1>3, <2>1 DEF IInv, FetchedBy
    <3>2. CASE q = r /\ m = n BY <3>2, <1>1, <2>1, <2>4, <2>10
    <3>3. CASE q = r /\ m # n
      <4>1. fetched'[r][m] = fetched[r][m] BY <3>3, <2>10
      <4>2. m # w BY <3>3, <4>1, <2>5
      <4>3. memo'[r][m] = memo[r][m] BY <3>3, <4>2, <2>9
      <4> QED BY <3>3, <4>1, <4>3, <1>2, <1>3 DEF IInv, FetchedBy
    <3> QED BY <3>1, <3>2, <3>3
  <2> QED BY <1>3, <2>2, <2>6, <2>7, <2>8 DEF IInv, EmptyBefore, Verified, LanesWait, LanePinned, ServedOne,
        ManifestOld, ScriptBetween, ScriptFirst, LanesEnd
<1> QED BY <1>4, <1>5

LEMMA ArriveInv == ASSUME IInv, NEW r \in Readers, NEW whole \in BOOLEAN, Arrive(r, whole) PROVE IInv'
<1> USE PageReader
<1>1. state[r] = "loading" BY DEF IInv, FetchLoads, Arrive
<1>2. state' \in [Readers -> States] /\ state'[r] \in {"loading", "failed"}
      /\ \A q \in Readers : q # r => state'[q] = state[q]
  BY <1>1 DEF IInv, Shapes, Arrive, States
<1>3. got' \in [Readers -> [Names -> Nat]]
      /\ \A q \in Readers, n \in Names : got'[q][n] = got[q][n] \/ (q = r /\ got'[q][n] = manifest[r])
  <2>1. CASE Matches(r, whole) BY <2>1 DEF IInv, Shapes, Arrive, Matches
  <2>2. CASE ~Matches(r, whole) BY <2>2 DEF IInv, Shapes, Arrive
  <2> QED BY <2>1, <2>2
<1>4. DOMAIN fetch' = Readers /\ fetch'[r] = <<>> /\ \A q \in Readers : q # r => fetch'[q] = fetch[q]
  BY DEF IInv, Shapes, Arrive
<1>5. UNCHANGED <<atomic, served, manifest, script, fetched>> BY DEF Arrive
<1>13. at' \in [Readers -> Nat \ {0}] BY DEF IInv, Shapes, Arrive
<1>15. /\ memo' \in [Readers -> [Names -> Memos]] /\ \A q \in Readers : q # r => memo'[q] = memo[q]
       /\ Matches(r, whole) => \A m \in Names : memo[r][m] = "ok" \/ fetch[r][1] = m => memo'[r][m] = "ok"
  <2> DEFINE v == IF Matches(r, whole) THEN "ok" ELSE "failed"
  <2>1. v \in Memos BY DEF Memos
  <2>2. memo' = Both(r, Wanted(r), fetch[r][1], v) BY DEF Arrive, Both
  <2>3. Matches(r, whole) => v = "ok" OBVIOUS
  <2> HIDE DEF v
  <2>4. /\ memo' \in [Readers -> [Names -> Memos]]
        /\ \A q \in Readers, m \in Names :
              memo'[q][m] = IF q = r /\ m \in {Wanted(r), fetch[r][1]} THEN v ELSE memo[q][m]
    BY <2>1, <2>2, BothMarked DEF IInv, Shapes
  <2>5. \A q \in Readers : q # r => memo'[q] = memo[q] BY <2>4 DEF IInv, Shapes
  <2> QED BY <2>3, <2>4, <2>5
<1>6. Shapes' BY <1>2, <1>3, <1>4, <1>5, <1>13, <1>15 DEF IInv, Shapes
<1>7. FetchLoads' BY <1>2, <1>4 DEF IInv, FetchLoads
<1>8. EmptyBefore' BY <1>2, <1>3 DEF IInv, EmptyBefore
<1>9. Verified' BY <1>3, <1>5 DEF IInv, Verified
<1>10. LanesWait' /\ LanesEnd' BY <1>1, <1>2 DEF IInv, LanesWait, LanesEnd
<1>11. LanePinned' /\ ScriptFirst' BY <1>1, <1>2, <1>5 DEF IInv, LanePinned, ScriptFirst
<1>12. ServedOne' /\ ManifestOld' /\ ScriptBetween'
  BY <1>1, <1>2, <1>5 DEF IInv, ServedOne, ManifestOld, ScriptBetween
<1>14. FetchedBy'
  <2> SUFFICES ASSUME NEW q \in Readers, NEW m \in Names, fetched[q][m] # 0
               PROVE /\ fetched[q][m] = 1 /\ Delivery[m] = m
                     /\ memo'[q][m] = "ok" \/ (fetch'[q] # <<>> /\ fetch'[q][1] = m) \/ state'[q] = "failed"
    BY <1>5 DEF FetchedBy
  <2>1. CASE q # r
    <3> QED BY <2>1, <1>2, <1>4, <1>15 DEF IInv, FetchedBy
  <2>2. CASE q = r /\ ~Matches(r, whole)
    <3>1. state'[r] = "failed" BY <2>2 DEF IInv, Shapes, Arrive
    <3> QED BY <2>2, <3>1 DEF IInv, FetchedBy
  <2>3. CASE q = r /\ Matches(r, whole)
    <3> QED BY <2>3, <1>1, <1>15 DEF IInv, FetchedBy
  <2> QED BY <2>1, <2>2, <2>3
<1> QED BY <1>6, <1>7, <1>8, <1>9, <1>10, <1>11, <1>12, <1>14 DEF IInv

LEMMA RunInv == ASSUME IInv, NEW r \in Readers, Run(r) PROVE IInv'
<1> USE PageReader DEF IInv, Shapes, Run, States
<1>1. Shapes' /\ EmptyBefore' /\ Verified' /\ FetchedBy' BY DEF EmptyBefore, Verified, FetchedBy
<1>2. FetchLoads'
  BY DEF FetchLoads
<1>3. LanesWait' /\ LanePinned' /\ LanesEnd' BY DEF LanesWait, LanePinned, LanesEnd
<1>4. ServedOne' /\ ManifestOld' /\ ScriptBetween' /\ ScriptFirst'
  BY DEF ServedOne, ManifestOld, ScriptBetween, ScriptFirst
<1> QED BY <1>1, <1>2, <1>3, <1>4

LEMMA EndInv == ASSUME IInv, End PROVE IInv'
<1> USE PageReader
<1>1. \A r \in Readers : state'[r] = "failed" /\ fetch'[r] = <<>> BY DEF End, Closed
<1>2. state' \in [Readers -> States] /\ DOMAIN fetch' = Readers BY DEF End, Closed, States
<1>3. UNCHANGED <<atomic, served, manifest, script, got, at, memo, fetched>> BY DEF End
<1>9. FetchedBy' BY <1>1, <1>3 DEF IInv, FetchedBy
<1>4. Shapes' BY <1>2, <1>3 DEF IInv, Shapes
<1>5. FetchLoads' /\ EmptyBefore' BY <1>1 DEF FetchLoads, EmptyBefore
<1>6. Verified' /\ ServedOne' /\ ManifestOld' BY <1>3 DEF IInv, Verified, ServedOne, ManifestOld
<1>7. LanesWait' /\ LanePinned' /\ ScriptFirst' /\ LanesEnd' BY <1>1 DEF LanesWait, LanePinned, ScriptFirst, LanesEnd
<1>8. ScriptBetween' BY <1>1 DEF ScriptBetween
<1> QED BY <1>4, <1>5, <1>6, <1>7, <1>8, <1>9 DEF IInv

LEMMA StepInv == IInv /\ [Next]_vars => IInv'
<1> SUFFICES ASSUME IInv, [Next]_vars PROVE IInv' OBVIOUS
<1>1. CASE Next BY <1>1, DeployInv, StartInv, ReadManifestInv, AskInv, ArriveInv, RunInv, EndInv DEF Next
<1>2. CASE UNCHANGED vars
  BY <1>2 DEF vars, IInv, Shapes, FetchLoads, EmptyBefore, Verified, LanesWait, LanePinned, ServedOne,
     ManifestOld, ScriptBetween, ScriptFirst, LanesEnd, FetchedBy
<1> QED BY <1>1, <1>2

LEMMA ScriptPinned == IInv => ScriptOfBuild
<1> SUFFICES ASSUME IInv, NEW r \in Lanes, atomic, state[r] = "running" PROVE script[r] = manifest[Page]
  BY DEF ScriptOfBuild
<1>1. script[r] \in Nat /\ manifest[Page] \in Nat BY PageReader DEF IInv, Shapes
<1>2. script[r] <= manifest[Page] BY DEF IInv, ScriptFirst, LanePinned
<1>3. manifest[Page] <= script[r] BY DEF IInv, ScriptBetween
<1> QED BY <1>1, <1>2, <1>3

LEMMA Invariance == Spec => []IInv
BY InitInv, StepInv, PTL DEF Spec

\* Whatever is published and in whatever order files are replaced, verified
\* (assets.mjs) hands out only bytes of the build its manifest names.
THEOREM AssetsVerified == Spec => []Verified
<1>1. IInv => Verified BY DEF IInv
<1> QED BY <1>1, Invariance, PTL

\* A lane that got past its manifest has the page's build
\* (runPackagedNuppLuaJITApp's digest check).
THEOREM LanesOneBuild == Spec => []OneBuild
<1>1. IInv => OneBuild BY DEF IInv, LanePinned, OneBuild
<1> QED BY <1>1, Invariance, PTL

\* Where deploys are atomic, pinning the manifest also pins the script the
\* browser fetched for the lane, which nothing checks.
THEOREM LanesScript == Spec => []ScriptOfBuild
<1>1. IInv => ScriptOfBuild BY ScriptPinned
<1> QED BY <1>1, Invariance, PTL

\* The whole of it: bytes of one build, each asset fetched once by a reader
\* (assetsFor's pending map, through the encodings), a script of that build
\* where deploys are atomic, and no lane left when the page's run has ended
\* (the finally that closes the pool).
THEOREM OneBuildAlways == Spec => []OneBuildRuns
<1>1. IInv => OneBuildRuns
  <2> SUFFICES ASSUME IInv PROVE OneBuildRuns OBVIOUS
  <2>1. TypeOK
    <3>1. state \in [Readers -> States] /\ FetchLoads BY DEF IInv, Shapes
    <3> QED BY <3>1 DEF States, FetchLoads, TypeOK
  <2>2. FetchedOnce
    <3>1. ASSUME NEW r \in Readers, NEW n \in Names PROVE fetched[r][n] <= 1
      <4>1. fetched[r][n] = 0 \/ fetched[r][n] = 1 BY DEF IInv, FetchedBy
      <4> QED BY <4>1
    <3> QED BY <3>1 DEF FetchedOnce
  <2>3. OneBuild BY DEF IInv, LanePinned, OneBuild
  <2> QED BY <2>1, <2>2, <2>3, ScriptPinned DEF IInv, OneBuildRuns
<1> QED BY <1>1, Invariance, PTL
=============================================================================
