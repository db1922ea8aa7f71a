------------------------ MODULE NavigationPanelProofs ------------------------
(***************************************************************************)
(* Proofs about navigation.vue and about the panels that refresh           *)
(* themselves, for any number of views, positions, waypoints, calls and    *)
(* intervals.  The two share no state.                                     *)
(***************************************************************************)
EXTENDS NavigationPanel, RefreshPanels, FiniteSetTheorems, WellFoundedInduction,
        TLAPS

(***************************************************************************)
(* NavigationPanel: the labels of a view's markers are unique.  Three      *)
(* facts carry it: no marker has a label beyond the counter; new markers   *)
(* get labels beyond it; and the ranks of new positions differ because the *)
(* robot gives no id twice.                                                *)
(***************************************************************************)

NavConstants == MaxId \in Nat /\ MaxViews \in Nat

\* The robot's list: an id belongs to one waypoint and is not given again.
IdsUnique ==
  /\ waypoints \subseteq Waypoint /\ nextId \in Nat \ {0}
  /\ \A w \in waypoints : w.id < nextId
  /\ \A w, u \in waypoints : w.id = u.id => w = u

LabelsCounted ==
  /\ markers = [v \in Views |-> markers[v]] /\ labels \in [Views -> Nat]
  /\ \A v \in Views : \A m \in markers[v] : m.label \in Nat /\ m.label <= labels[v]

NavInv == NavConstants /\ IdsUnique /\ LabelsCounted /\ LabelsUnique

-----------------------------------------------------------------------------
(* Ranks.                                                                  *)

LEMMA Least ==
  ASSUME NEW S \in SUBSET Nat, S # {}
  PROVE  \E n \in S : \A k \in S : n <= k
<1> DEFINE R == {ss \in Nat \X Nat : ss[1] < ss[2]}
<1>1. IsWellFoundedOn(R, Nat)
  BY NatLessThanWellFounded DEF OpToRel
<1>2. PICK n \in S : \A k \in S : ~(<<k, n>> \in R)
  <2> HIDE DEF R
  <2> QED
    BY <1>1, WFMin
<1>3. ASSUME NEW k \in S PROVE n <= k
  <2>1. k \in Nat /\ n \in Nat
    OBVIOUS
  <2>2. <<k, n>> \in Nat \X Nat /\ ~(k < n)
    BY <1>2, <2>1
  <2>3. QED
    BY <2>1, <2>2
<1>4. QED
  BY <1>3

\* First(p) is the first waypoint at p in the robot's list.
LEMMA FirstThere ==
  ASSUME IdsUnique, NEW p, p \in {w.pos : w \in waypoints}
  PROVE  First(p) \in waypoints /\ First(p).pos = p
<1> DEFINE S == {w.id : w \in {u \in waypoints : u.pos = p}}
<1>1. S \in SUBSET Nat /\ S # {}
  BY DEF IdsUnique, Waypoint, Ids
<1>2. PICK n \in S : \A k \in S : n <= k
  BY <1>1, Least
<1>3. PICK w \in waypoints : w.pos = p /\ w.id = n
  BY <1>2
<1>4. \A u \in waypoints : u.pos = p => w.id <= u.id
  BY <1>2, <1>3
<1>5. QED
  BY <1>3, <1>4 DEF First

LEMMA FirstDiffers ==
  ASSUME NavConstants, IdsUnique,
         NEW p \in {w.pos : w \in waypoints}, NEW q \in {w.pos : w \in waypoints}
  PROVE  /\ First(p).id \in 1 .. MaxId
         /\ First(p).id = First(q).id => p = q
<1>1. First(p) \in waypoints /\ First(p).pos = p /\ First(q) \in waypoints /\ First(q).pos = q
  BY FirstThere
<1>2. QED
  BY <1>1 DEF IdsUnique, Waypoint, Ids

LEMMA UnknownFinite ==
  ASSUME NavConstants, IdsUnique, NEW v
  PROVE  IsFiniteSet(Unknown(v))
<1> DEFINE f == [p \in Unknown(v) |-> First(p).id]
<1>1. f \in Injection(Unknown(v), 1 .. MaxId)
  BY FirstDiffers DEF Unknown, Injection, IsInjective
<1>2. IsFiniteSet(1 .. MaxId)
  BY FS_Interval DEF NavConstants
<1>3. QED
  BY <1>1, <1>2, FS_Injection

LEMMA RankCounts ==
  ASSUME NavConstants, IdsUnique, NEW v, NEW p \in Unknown(v)
  PROVE  Rank(v, p) \in 1 .. Cardinality(Unknown(v))
<1> DEFINE S == {q \in Unknown(v) : First(q).id <= First(p).id}
<1>1. IsFiniteSet(Unknown(v))
  BY UnknownFinite
<1>2. IsFiniteSet(S) /\ Cardinality(S) <= Cardinality(Unknown(v))
  BY <1>1, FS_Subset
<1>3. First(p).id \in Nat
  BY FirstDiffers DEF Unknown
<1>4. p \in S
  BY <1>3
<1>5. Cardinality(S) \in Nat /\ Cardinality(S) # 0
  BY <1>2, <1>4, FS_CardinalityType, FS_EmptySet
<1>6. Cardinality(Unknown(v)) \in Nat
  BY <1>1, FS_CardinalityType
<1>7. QED
  BY <1>2, <1>5, <1>6 DEF Rank

LEMMA RankDiffers ==
  ASSUME NavConstants, IdsUnique, NEW v, NEW p \in Unknown(v), NEW q \in Unknown(v),
         Rank(v, p) = Rank(v, q)
  PROVE  p = q
<1>1. SUFFICES ASSUME NEW a \in Unknown(v), NEW b \in Unknown(v), First(a).id < First(b).id
               PROVE  Rank(v, a) # Rank(v, b)
  <2>1. First(p).id \in Nat /\ First(q).id \in Nat
    BY FirstDiffers DEF Unknown
  <2>2. First(p).id = First(q).id
    BY <1>1, <2>1
  <2>3. QED
    BY <2>2, FirstDiffers DEF Unknown
<1> DEFINE A == {x \in Unknown(v) : First(x).id <= First(a).id}
           B == {x \in Unknown(v) : First(x).id <= First(b).id}
<1>2. \A x \in Unknown(v) : First(x).id \in Nat
  BY FirstDiffers DEF Unknown
<1>3. A \subseteq B /\ b \in B /\ b \notin A
  BY <1>1, <1>2
<1>4. IsFiniteSet(B)
  BY UnknownFinite, FS_Subset
<1>5. Cardinality(A) # Cardinality(B)
  <2> HIDE DEF A, B
  <2> QED
    BY <1>3, <1>4, FS_Subset
<1>6. QED
  BY <1>5 DEF Rank

-----------------------------------------------------------------------------
(* The steps.                                                              *)

LEMMA NavInit == NavConstants /\ NavigationInit => NavInv
BY DEF NavConstants, NavigationInit, NavInv, IdsUnique, LabelsCounted, LabelsUnique

\* An answer gives the new positions labels nobody in this view has.
LEMMA AnswerKeepsLabels ==
  ASSUME NavInv, NEW v \in Views, WaypointsAnswer(v)
  PROVE  LabelsCounted' /\ LabelsUnique'
<1>1. CASE ~reachable
  BY <1>1 DEF WaypointsAnswer, shown, NavInv, LabelsCounted, LabelsUnique
<1>2. CASE reachable
  <2> DEFINE new == NewMarkers(v)
             kept == Kept(v)
             n == Cardinality(Unknown(v))
  <2>1. n \in Nat
    BY UnknownFinite, FS_CardinalityType DEF NavInv
  <2>2. labels[v] \in Nat /\ kept \subseteq markers[v]
    BY DEF NavInv, LabelsCounted, Kept
  <2>3. \A m \in new : /\ m.pos \in Unknown(v) /\ m.label = labels[v] + Rank(v, m.pos)
                       /\ m.label \in labels[v] + 1 .. labels[v] + n
    <3> SUFFICES ASSUME NEW m \in new
                 PROVE  /\ m.pos \in Unknown(v) /\ m.label = labels[v] + Rank(v, m.pos)
                        /\ m.label \in labels[v] + 1 .. labels[v] + n
      OBVIOUS
    <3>1. PICK p \in Unknown(v) : m = [pos |-> p, id |-> First(p).id,
                                       label |-> labels[v] + Rank(v, p), map |-> views]
      BY DEF NewMarkers
    <3>2. Rank(v, p) \in 1 .. n
      BY RankCounts DEF NavInv
    <3>3. m.pos = p /\ m.label = labels[v] + Rank(v, p)
      BY <3>1
    <3> HIDE DEF n, new
    <3> QED BY <2>1, <2>2, <3>2, <3>3
  <2>4. \A m \in new : m.label \in Nat
    BY <2>1, <2>2, <2>3
  <2>5. \A m, k \in new : m.label = k.label => m.pos = k.pos
    <3> SUFFICES ASSUME NEW m \in new, NEW k \in new, m.label = k.label PROVE m.pos = k.pos
      OBVIOUS
    <3>1. Rank(v, m.pos) \in Nat /\ Rank(v, k.pos) \in Nat
      BY <2>3, RankCounts, <2>1 DEF NavInv
    <3>2. Rank(v, m.pos) = Rank(v, k.pos)
      BY <2>2, <2>3, <3>1
    <3>3. QED
      BY <2>3, <3>2, RankDiffers DEF NavInv
  <2>6. \A m \in kept : m.label \in Nat /\ m.label <= labels[v]
    BY <2>2 DEF NavInv, LabelsCounted
  <2>7. \A m, k \in kept : m.label = k.label => m.pos = k.pos
    BY <2>2 DEF NavInv, LabelsUnique
  <2>8. /\ markers' = [markers EXCEPT ![v] = kept \cup new]
        /\ labels' = [labels EXCEPT ![v] = labels[v] + n]
    BY <1>2 DEF WaypointsAnswer, LabelsAfter
  <2> HIDE DEF new, kept, n
  <2>9. LabelsCounted'
    <3>1. markers' = [u \in Views |-> markers'[u]] /\ labels' \in [Views -> Nat]
      <4>1. markers' = [u \in Views |-> IF u = v THEN kept \cup new ELSE markers[u]]
        BY <2>8 DEF NavInv, LabelsCounted
      <4>2. markers' = [u \in Views |-> markers'[u]]
        BY <4>1, ZenonT(40)
      <4>3. labels' \in [Views -> Nat]
        BY <2>1, <2>2, <2>8 DEF NavInv, LabelsCounted
      <4>4. QED
        BY <4>2, <4>3
    <3>2. ASSUME NEW u \in Views, NEW m \in markers'[u]
          PROVE  m.label \in Nat /\ m.label <= labels'[u]
      <4>1. CASE u = v
        <5>1. m \in kept \cup new /\ labels'[u] = labels[v] + n
          BY <2>8, <3>2, <4>1 DEF NavInv, LabelsCounted
        <5>2. QED
          BY <2>1, <2>2, <2>3, <2>4, <2>6, <5>1
      <4>2. CASE u # v
        <5>1. m \in markers[u] /\ labels'[u] = labels[u]
          BY <2>8, <3>2, <4>2 DEF NavInv, LabelsCounted
        <5>2. QED
          BY <5>1 DEF NavInv, LabelsCounted
      <4>3. QED
        BY <4>1, <4>2
    <3>3. QED
      BY <3>1, <3>2 DEF LabelsCounted
  <2>10. LabelsUnique'
    <3> SUFFICES ASSUME NEW u \in Views, NEW m \in markers'[u], NEW k \in markers'[u],
                        m.label = k.label
                 PROVE  m.pos = k.pos
      BY DEF LabelsUnique
    <3>1. CASE u # v
      BY <2>8, <3>1 DEF NavInv, LabelsCounted, LabelsUnique
    <3>2. CASE u = v
      <4>1. m \in kept \cup new /\ k \in kept \cup new
        BY <2>8, <3>2 DEF NavInv, LabelsCounted
      <4>2. \A a \in kept, b \in new : a.label # b.label
        BY <2>1, <2>2, <2>3, <2>6
      <4>3. QED
        BY <2>5, <2>7, <4>1, <4>2
    <3>3. QED
      BY <3>1, <3>2
  <2>11. QED
    BY <2>9, <2>10
<1>3. QED
  BY <1>1, <1>2

LEMMA NavStep == NavInv /\ [NavigationNext]_navVars => NavInv'
<1> SUFFICES ASSUME NavInv, [NavigationNext]_navVars PROVE NavInv'
  OBVIOUS
<1>1. CASE \E v \in Views : WaypointsAnswer(v)
  <2>1. LabelsCounted' /\ LabelsUnique'
    BY <1>1, AnswerKeepsLabels
  <2>2. UNCHANGED navRobot
    BY <1>1 DEF WaypointsAnswer
  <2>3. QED
    BY <2>1, <2>2 DEF navRobot, NavInv, NavConstants, IdsUnique
<1>2. CASE \E p \in Positions : AddWaypoint(p)
  <2>1. IdsUnique'
    <3>1. PICK p \in Positions : AddWaypoint(p)
      BY <1>2
    <3>2. nextId \in Ids
      BY <3>1 DEF AddWaypoint, NavInv, IdsUnique, NavConstants, Ids
    <3> DEFINE w0 == [id |-> nextId, pos |-> p]
    <3>3. waypoints' = waypoints \cup {w0} /\ nextId' = nextId + 1
      BY <3>1 DEF AddWaypoint
    <3>4. w0 \in Waypoint /\ w0.id = nextId
      BY <3>2 DEF Waypoint
    <3>5. \A w \in waypoints : w.id \in Nat /\ w.id < nextId
      BY DEF NavInv, IdsUnique, Waypoint, Ids
    <3> HIDE DEF w0
    <3>6. QED
      BY <3>3, <3>4, <3>5 DEF NavInv, IdsUnique
  <2>2. UNCHANGED shown
    BY <1>2 DEF AddWaypoint
  <2>3. QED
    BY <2>1, <2>2 DEF shown, NavInv, NavConstants, LabelsCounted, LabelsUnique
<1>3. CASE \/ \E v \in Views : \E m \in markers[v] : RemoveMarker(v, m)
           \/ \E w \in waypoints : Visited(w)
  <2>1. waypoints' \subseteq waypoints /\ UNCHANGED <<nextId, shown>>
    BY <1>3 DEF RemoveMarker, Visited
  <2>2. QED
    BY <2>1 DEF shown, NavInv, NavConstants, IdsUnique, LabelsCounted, LabelsUnique
<1>4. CASE \/ Go \/ GoogleMapsInit \/ Unmount \/ Reachable \/ UNCHANGED navVars
           \/ \E v \in Views : AskAgain(v)
  <2>1. UNCHANGED <<waypoints, nextId, shown>>
    BY <1>4 DEF Go, GoogleMapsInit, MakeViews, Unmount, Reachable, AskAgain, navVars, navRobot
  <2>2. QED
    BY <2>1 DEF shown, NavInv, NavConstants, IdsUnique, LabelsCounted, LabelsUnique
<1>5. QED
  BY <1>1, <1>2, <1>3, <1>4 DEF NavigationNext

-----------------------------------------------------------------------------
\* However waypoints come and go between the answers, no two markers made by a
\* view have the same label (updateWaypoints of navigation.vue).
THEOREM MarkerLabelsUnique == NavConstants /\ NavigationSpec => []LabelsUnique
<1>1. NavInv => LabelsUnique
  BY DEF NavInv
<1>2. QED
  BY <1>1, NavInit, NavStep, PTL DEF NavigationSpec

(***************************************************************************)
(* RefreshPanels: a map of slam.vue has an interval exactly when it        *)
(* should.  Needed besides: a panel that is not on the page shows no map,  *)
(* or mounting it would find one without interval.                         *)
(***************************************************************************)

UnmountedShowsNothing == ~panelMounted => ~show

IntervalInv == OneInterval /\ UnmountedShowsNothing

\* updateSLAMImageRefreshFrequency leaves one interval, the one it remembers,
\* or none.
LEMMA UpdateLeavesOne ==
  ASSUME OneInterval, NEW time, Update(time)
  PROVE  intervals' = IF time = "timed" THEN {intervalId'} ELSE {}
<1>1. Cleared(time) = {}
  BY DEF OneInterval, Cleared
<1>2. QED
  BY <1>1 DEF Update

LEMMA IntervalInit == FeedInit => IntervalInv
BY DEF FeedInit, IntervalInv, OneInterval, Timed, UnmountedShowsNothing

LEMMA IntervalStep == IntervalInv /\ [FeedNext]_feedVars => IntervalInv'
<1> SUFFICES ASSUME IntervalInv, [FeedNext]_feedVars PROVE IntervalInv'
  OBVIOUS
<1> USE DEF IntervalInv, UnmountedShowsNothing, Timed, Slam
<1>1. CASE Toggle
  <2>1. intervals' = IF (IF show' THEN selected ELSE "off") = "timed"
                       THEN {intervalId'} ELSE {}
    BY <1>1, UpdateLeavesOne DEF Toggle
  <2>2. UNCHANGED <<feed, panelMounted, selected>> /\ show' = ~show /\ Slam
    BY <1>1 DEF Toggle
  <2>3. QED
    BY <2>1, <2>2 DEF OneInterval
<1>2. CASE Refresh
  <2>1. intervals' = IF selected = "timed" THEN {intervalId'} ELSE {}
    BY <1>2, UpdateLeavesOne DEF Refresh
  <2>2. UNCHANGED <<feed, panelMounted, selected, show>> /\ show /\ Slam
    BY <1>2 DEF Refresh
  <2>3. QED
    BY <2>1, <2>2 DEF OneInterval
<1>3. CASE \E time \in {"manual", "timed"} : Select(time)
  <2>1. PICK time \in {"manual", "timed"} : Select(time)
    BY <1>3
  <2>2. intervals' = IF time = "timed" THEN {intervalId'} ELSE {}
    BY <2>1, UpdateLeavesOne DEF Select
  <2>3. UNCHANGED <<feed, panelMounted, show>> /\ selected' = time /\ show /\ Slam
    BY <2>1 DEF Select
  <2>4. QED
    BY <2>2, <2>3 DEF OneInterval
<1>4. CASE Mount \/ FeedUnmount
  BY <1>4 DEF Mount, FeedUnmount, slam, OneInterval
<1>5. CASE \/ RefreshBegins \/ RefreshGoesOn \/ RefreshStuck \/ OrphanBegins \/ OrphanGoesOn
           \/ FeedReachable
           \/ \E i \in FeedIds : Tick(i)
           \/ \E c \in calls : Serve(c) \/ Answer(c)
           \/ \E v \in Versions : Change(v)
           \/ UNCHANGED feedVars
  <2>1. UNCHANGED <<feed, panelMounted, slam>>
    BY <1>5 DEF RefreshBegins, RefreshGoesOn, RefreshStuck, OrphanBegins, OrphanGoesOn,
                FeedReachable, Tick, Serve, Answer, Change, feedVars
  <2>2. QED
    BY <2>1 DEF slam, OneInterval
<1>6. QED
  BY <1>1, <1>2, <1>3, <1>4, <1>5 DEF FeedNext

\* However often a map is shown, hidden, refreshed, given another frequency,
\* taken off the page and put back, it has one interval when a frequency is
\* selected and it is shown, and none otherwise (slam.vue).
THEOREM MapHasOneInterval == FeedSpec => []OneInterval
<1>1. IntervalInv => OneInterval
  BY DEF IntervalInv
<1>2. QED
  BY <1>1, IntervalInit, IntervalStep, PTL DEF FeedSpec
=============================================================================
