------------------------ MODULE ScreenSelectionProofs ------------------------
(****************************************************************************)
(* For any instances, layouts and range of positions: the daemon follows the  *)
(* picker to the instance that is shared, the region of the portal names the monitor  *)
(* that is shared, and a position on a lone monitor arrives where it was      *)
(* meant.                                                                     *)
(****************************************************************************)
EXTENDS ScreenSelection, SequenceTheorems, WellFoundedInduction, TLAPS

\* While the portal's reading is fresh, its instance lives and the region is
\* the monitor listed first.
RegionRead ==
    fresh /\ source # None =>
        /\ lock[source] = "live" /\ layout[source] # <<>>
        /\ region.name = Head(layout[source]).name
        /\ region.width = Head(layout[source]).width
        /\ region.x \in ToUint(Head(layout[source]).x)

\* What the picker shared of that instance is the same monitor.
SharedRead ==
    fresh /\ source # None /\ shared.instance = source
        => shared.name = Head(layout[source]).name

\* Without an answer both fall back on the same name.
Fallbacks ==
    /\ source = None => region.name = Default.name
    /\ shared.instance = None => shared.name = Default.name

\* While what was shared lives and nothing started: the picker's preset names it,
\* or no directory before its own is one of a living instance.
SharedFirst ==
    steady /\ shared.instance # None /\ lock[shared.instance] = "live" =>
        \/ preset.picker = shared.instance
        \/ /\ preset.picker \in Instances => lock[preset.picker] # "live"
           /\ \E n \in 1 .. Len(newest) :
                /\ newest[n] = shared.instance
                /\ \A m \in 1 .. n - 1 : lock[newest[m]] # "live"

ScreenInv == TypeOK /\ RegionRead /\ SharedRead /\ Fallbacks

\* The first monitor of a layout.
LEMMA HeadIsMonitor ==
    ASSUME NEW l \in Layouts \cup {<<>>}, l # <<>>
    PROVE  /\ l \in Layouts /\ Head(l) \in Monitors
           /\ Head(l).name \in Names
           /\ 1 \in 1 .. Len(l) /\ Head(l) = l[1]
<1>1. l \in Layouts /\ l \in Seq(Monitors)
  BY ScreenAssumption
<1>2. Head(l) \in Monitors /\ Head(l) = l[1] /\ 1 \in 1 .. Len(l)
  BY <1>1, HeadTailProperties, LenProperties, EmptySeq
<1>3. Head(l).name \in {l[n].name : n \in 1 .. Len(l)}
  BY <1>2
<1>4. QED
  BY <1>1, <1>2, <1>3 DEF Names

\* The conversion of a monitor's place fits the unsigned type.
LEMMA ToUintFits ==
    ASSUME NEW x \in -UintRange .. UintRange - 1, NEW y \in ToUint(x)
    PROVE  y \in 0 .. UintRange - 1 /\ (x = 0 => y = 0)
BY ScreenAssumption DEF ToUint

LEMMA InitScreen == Init => ScreenInv
<1> SUFFICES ASSUME Init PROVE ScreenInv
  OBVIOUS
<1>1. Default \in Monitors /\ UintRange \in Nat \ {0} /\ Default.x = 0
  BY ScreenAssumption
<1>2. newest \in Seq(Instances)
  BY EmptySeq DEF Init
<1>3. fresh \in BOOLEAN /\ steady \in BOOLEAN
  BY Zenon DEF Init
<1>4. TypeOK
  BY <1>1, <1>2, <1>3 DEF Init, TypeOK, Locks, Nothing, Names, Monitors
<1>5. RegionRead /\ SharedRead /\ Fallbacks
  BY DEF Init, RegionRead, SharedRead, Fallbacks, Nothing
<1>6. QED
  BY <1>4, <1>5 DEF ScreenInv

\* There is a least place in a list.
LEMMA MinIn ==
    ASSUME NEW S \in SUBSET Nat, S # {}
    PROVE  Min(S) \in S /\ \A y \in S : Min(S) =< y
<1> DEFINE less == {p \in Nat \X Nat : p[1] < p[2]}
<1>1. IsWellFoundedOn(less, Nat)
  BY NatLessThanWellFounded DEF OpToRel
<1> HIDE DEF less
<1>2. PICK x \in S : \A y \in S : <<y, x>> \notin less
  BY <1>1, WFMin
<1>3. \A y \in S : x =< y
  <2>1. SUFFICES ASSUME NEW y \in S, ~(x =< y) PROVE FALSE
    OBVIOUS
  <2>2. x \in Nat /\ y \in Nat
    OBVIOUS
  <2>3. <<y, x>> \in less
    BY <2>1, <2>2 DEF less
  <2>4. QED
    BY <1>2, <2>3
<1>4. QED
  BY <1>3 DEF Min

\* The picker means one of the instances, if any.
LEMMA PickerKnown == ASSUME TypeOK PROVE PickerInstance \in Instances \cup {None}
<1> DEFINE passing == {n \in 1 .. Len(newest) : newest[n] \in AliveForPicker}
<1>1. newest \in Seq(Instances) /\ Len(newest) \in Nat
  BY LenProperties DEF TypeOK
<1>2. passing # {} => Min(passing) \in passing
  <2>1. passing \in SUBSET Nat
    BY <1>1
  <2> HIDE DEF passing
  <2>2. QED
    BY <2>1, MinIn
<1>3. FirstOf(newest, AliveForPicker) \in Instances \cup {None}
  BY <1>1, <1>2, ElementOfSeq DEF FirstOf
<1>4. QED
  BY <1>3 DEF PickerInstance, AliveForPicker

\* The portal reads its monitor, or falls back on the default.
LEMMA PortalStep == ASSUME ScreenInv, PortalStarts PROVE ScreenInv'
<1>1. TypeOK /\ shared' = Nothing /\ fresh' = TRUE /\ UNCHANGED <<world, steady>>
  BY DEF ScreenInv, PortalStarts
<1>2. Default \in Monitors /\ Default.x = 0 /\ UintRange \in Nat \ {0}
      /\ None \notin Instances
  BY ScreenAssumption
<1>3. shared' \in [instance : Instances \cup {None}, name : Names]
      /\ shared'.instance = None /\ shared'.name = Default.name
  BY <1>1 DEF Nothing, Names
<1>4. fresh' \in BOOLEAN /\ steady' \in BOOLEAN
  <2>1. fresh' \in BOOLEAN
    BY Zenon, <1>1
  <2>2. steady' \in BOOLEAN
    BY <1>1 DEF TypeOK
  <2>3. QED
    BY <2>1, <2>2
<1>5. CASE region' = Default /\ source' = None
  <2>1. TypeOK'
    BY <1>1, <1>2, <1>3, <1>4, <1>5 DEF TypeOK, world, Monitors
  <2>2. RegionRead' /\ SharedRead' /\ Fallbacks'
    BY <1>3, <1>5 DEF RegionRead, SharedRead, Fallbacks
  <2>3. QED
    BY <2>1, <2>2 DEF ScreenInv
<1>6. CASE /\ Answers(preset.service) /\ source' = preset.service
           /\ LET m == Primary(layout[preset.service])
              IN  region' \in {[m EXCEPT !.x = x] : x \in ToUint(m.x)}
  <2> DEFINE i == preset.service
             m == Head(layout[i])
  <2>1. i \in Instances /\ lock[i] = "live" /\ layout[i] # <<>> /\ i # None
        /\ layout[i] \in Layouts \cup {<<>>}
    BY <1>1, <1>2, <1>6 DEF Answers, TypeOK
  <2>2. m \in Monitors
    BY <2>1, HeadIsMonitor
  <2> HIDE DEF m
  <2>3. PICK x \in ToUint(m.x) : region' = [m EXCEPT !.x = x]
    BY <1>6 DEF Primary, m
  <2>4. x \in 0 .. UintRange - 1
    BY <2>2, <2>3, ToUintFits DEF Monitors
  <2>5. region'.x = x /\ region'.name = m.name /\ region'.width = m.width
        /\ region'.width \in 1 .. UintRange - 1
    BY <2>2, <2>3 DEF Monitors
  <2>6. TypeOK'
    BY <1>1, <1>3, <1>4, <1>6, <2>1, <2>4, <2>5 DEF TypeOK, world
  <2>7. RegionRead'
    BY <1>1, <1>6, <2>1, <2>3, <2>5 DEF RegionRead, world, m
  <2>8. SharedRead' /\ Fallbacks'
    BY <1>3, <1>6, <2>1 DEF SharedRead, Fallbacks
  <2>9. QED
    BY <2>6, <2>7, <2>8 DEF ScreenInv
<1>7. QED
  BY <1>5, <1>6 DEF PortalStarts

\* The picker shares the first monitor of a living instance, or the default.
LEMMA PickerStep == ASSUME ScreenInv, PickerShares PROVE ScreenInv'
<1>1. TypeOK /\ UNCHANGED <<world, region, source, fresh>> /\ steady' = TRUE
  BY DEF ScreenInv, PickerShares
<1> steady' \in BOOLEAN
  BY Zenon, <1>1
<1>2. RegionRead' /\ (source = None => region.name = Default.name)
  BY <1>1 DEF ScreenInv, RegionRead, Fallbacks, world
<1>3. CASE shared' = Nothing
  <2>1. TypeOK'
    BY <1>1, <1>3 DEF TypeOK, world, Nothing, Names
  <2>2. SharedRead' /\ Fallbacks'
    BY <1>1, <1>2, <1>3 DEF SharedRead, Fallbacks, Nothing
  <2>3. QED
    BY <1>2, <2>1, <2>2 DEF ScreenInv
<1>4. CASE /\ Answers(PickerInstance)
           /\ shared' = [instance |-> PickerInstance,
                         name |-> Head(layout[PickerInstance]).name]
  <2> DEFINE i == PickerInstance
  <2>1. i # None /\ lock[i] = "live" /\ layout[i] # <<>>
    BY <1>4 DEF Answers
  <2>2. i \in Instances
    BY <1>1, <2>1, PickerKnown
  <2> HIDE DEF i
  <2>3. Head(layout[i]).name \in Names
    BY <1>1, <2>1, <2>2, HeadIsMonitor DEF TypeOK
  <2>4. shared'.instance = i /\ shared'.name = Head(layout[i]).name
        /\ shared' \in [instance : Instances \cup {None}, name : Names]
    BY <1>4, <2>2, <2>3 DEF i
  <2>5. TypeOK'
    BY <1>1, <2>4 DEF TypeOK, world
  <2>6. SharedRead' /\ Fallbacks'
    BY <1>1, <1>2, <2>1, <2>4 DEF SharedRead, Fallbacks, world
  <2>7. QED
    BY <1>2, <2>5, <2>6 DEF ScreenInv
<1>5. QED
  BY <1>3, <1>4 DEF PickerShares

\* A new instance goes to the front; one that ends leaves its place.
LEMMA NewestStep ==
    ASSUME newest \in Seq(Instances), NEW i \in Instances
    PROVE  /\ <<i>> \o newest \in Seq(Instances)
           /\ \A n \in 1 .. Len(newest) : RemoveAt(newest, n) \in Seq(Instances)
<1>1. <<i>> \in Seq(Instances) /\ Len(newest) \in Nat
  BY LenProperties
<1>2. ASSUME NEW n \in 1 .. Len(newest) PROVE RemoveAt(newest, n) \in Seq(Instances)
  <2>1. \A k \in 1 .. n - 1 : k \in 1 .. Len(newest)
    BY <1>1
  <2>2. \A k \in n + 1 .. Len(newest) : k \in 1 .. Len(newest)
    BY <1>1
  <2>3. SubSeq(newest, 1, n - 1) \in Seq(Instances)
        /\ SubSeq(newest, n + 1, Len(newest)) \in Seq(Instances)
    BY <1>1, <2>1, <2>2, SubSeqProperties, ElementOfSeq
  <2>4. QED
    BY <2>3, ConcatProperties DEF RemoveAt
<1>3. QED
  BY <1>1, <1>2, ConcatProperties

\* The session of Hyprland: what changes the monitors the portal read, or ends
\* their instance, takes away that they are fresh.
LEMMA WorldStep ==
    ASSUME ScreenInv, NEW i \in Instances,
           \/ InstanceEnds(i) \/ PidReused(i)
           \/ \E l \in Layouts : InstanceStarts(i, l) \/ LayoutChanges(i, l)
    PROVE  ScreenInv'
<1>1. TypeOK /\ None \notin Instances
  BY ScreenAssumption DEF ScreenInv
<1>2. /\ UNCHANGED <<preset, region, source, shared>>
      /\ fresh' \in BOOLEAN /\ (fresh' => fresh) /\ steady' \in BOOLEAN
  <2>1. UNCHANGED <<preset, region, source, shared>>
    BY DEF InstanceStarts, InstanceEnds, PidReused, LayoutChanges
  <2>2. fresh' = fresh \/ fresh' = (fresh /\ i # source)
    BY Zenon DEF InstanceStarts, InstanceEnds, PidReused, LayoutChanges
  <2>3. fresh \in BOOLEAN
    BY <1>1 DEF TypeOK
  <2>4. fresh' \in BOOLEAN /\ (fresh' => fresh)
    <3>1. CASE fresh' = fresh
      BY <2>3, <3>1
    <3>2. CASE fresh' = (fresh /\ i # source)
      <4>1. fresh' \in BOOLEAN
        BY Zenon, <3>2
      <4>2. fresh' => fresh
        BY Zenon, <3>2
      <4>3. QED
        BY <4>1, <4>2
    <3>3. QED
      BY <2>2, <3>1, <3>2
  <2>5. steady' \in BOOLEAN
    <3>1. CASE steady' = FALSE
      BY Zenon, <3>1
    <3>2. CASE steady' = steady
      BY <1>1, <3>2 DEF TypeOK
    <3>3. QED
      BY Zenon, <3>1, <3>2 DEF InstanceStarts, InstanceEnds, PidReused, LayoutChanges
  <2>6. QED
    BY <2>1, <2>4, <2>5
<1>3. newest' \in Seq(Instances)
  <2>1. newest \in Seq(Instances)
    BY <1>1 DEF TypeOK
  <2>2. \/ newest' = newest \/ newest' = <<i>> \o newest
        \/ \E n \in 1 .. Len(newest) : newest' = RemoveAt(newest, n)
    <3>1. CASE InstanceEnds(i) \/ PidReused(i)
      BY Zenon, <3>1 DEF InstanceEnds, PidReused
    <3>2. ASSUME NEW l \in Layouts, InstanceStarts(i, l) PROVE newest' = <<i>> \o newest
      BY <3>2 DEF InstanceStarts
    <3>3. ASSUME NEW l \in Layouts, LayoutChanges(i, l) PROVE newest' = newest
      BY <3>3 DEF LayoutChanges
    <3>4. QED
      BY <3>1, <3>2, <3>3
  <2>3. /\ <<i>> \o newest \in Seq(Instances)
        /\ \A n \in 1 .. Len(newest) : RemoveAt(newest, n) \in Seq(Instances)
    BY <2>1, NewestStep
  <2>4. ASSUME NEW n \in 1 .. Len(newest), newest' = RemoveAt(newest, n)
        PROVE  newest' \in Seq(Instances)
    BY Zenon, <2>3, <2>4
  <2>5. QED
    BY Zenon, <2>1, <2>2, <2>3, <2>4
<1>4. lock' \in [Instances -> Locks] /\ layout' \in [Instances -> Layouts \cup {<<>>}]
  <2> USE <1>1 DEF TypeOK, Locks
  <2>1. CASE InstanceEnds(i) \/ PidReused(i)
    <3>1. layout' = layout
          /\ \E whose \in {"dead", "absent", "own", "other"} :
                lock' = [lock EXCEPT ![i] = whose]
      BY <2>1 DEF InstanceEnds, PidReused
    <3>2. QED
      BY <3>1
  <2>2. ASSUME NEW l \in Layouts, InstanceStarts(i, l)
        PROVE  lock' \in [Instances -> Locks]
               /\ layout' \in [Instances -> Layouts \cup {<<>>}]
    BY <2>2 DEF InstanceStarts
  <2>3. ASSUME NEW l \in Layouts, LayoutChanges(i, l)
        PROVE  lock' \in [Instances -> Locks]
               /\ layout' \in [Instances -> Layouts \cup {<<>>}]
    BY <2>3 DEF LayoutChanges
  <2>4. QED
    BY <2>1, <2>2, <2>3
<1>5. TypeOK'
  BY <1>1, <1>2, <1>3, <1>4 DEF TypeOK
<1>6. \A j \in Instances : j # i => lock'[j] = lock[j] /\ layout'[j] = layout[j]
  BY <1>1 DEF InstanceStarts, InstanceEnds, PidReused, LayoutChanges, TypeOK
<1>7. fresh' /\ source # None => source # i
  BY <1>1, <1>2
     DEF InstanceStarts, InstanceEnds, PidReused, LayoutChanges, ScreenInv, RegionRead
<1>8. source \in Instances \cup {None}
  BY <1>1 DEF TypeOK
<1>9. RegionRead' /\ SharedRead'
  BY <1>2, <1>6, <1>7, <1>8 DEF ScreenInv, RegionRead, SharedRead
<1>10. Fallbacks'
  BY <1>2 DEF ScreenInv, Fallbacks
<1>11. QED
  BY <1>5, <1>9, <1>10 DEF ScreenInv

LEMMA ScreenStep == ASSUME ScreenInv, [Next]_vars PROVE ScreenInv'
<1>1. CASE UNCHANGED vars
  BY <1>1 DEF vars, ScreenInv, TypeOK, RegionRead, SharedRead, Fallbacks
<1>2. QED
  BY <1>1, PortalStep, PickerStep, WorldStep DEF Next

LEMMA Invariance == Spec => []ScreenInv
<1>1. ScreenInv /\ [Next]_vars => ScreenInv'
  BY ScreenStep
<1>2. QED
  BY InitScreen, <1>1, PTL DEF Spec

\* The region stays within the unsigned type of MonitorInfo, for a monitor to
\* the left of the origin too.
THEOREM TypeCorrect == Spec => []TypeOK
<1>1. ScreenInv => TypeOK
  BY DEF ScreenInv
<1>2. QED
  BY <1>1, Invariance, PTL

\* The name the portal gives its region is that of the monitor hyprcrd-picker
\* shares, whatever instances start, end or change their monitors meanwhile.
THEOREM RegionIsShared == Spec => []SharedIsRegion
<1>1. ScreenInv => SharedIsRegion
  BY DEF ScreenInv, RegionRead, SharedRead, Fallbacks, SharedIsRegion
<1>2. QED
  BY <1>1, Invariance, PTL

----------------------------------------------------------------------------
(* The instance. *)

\* FirstOf finds the first directory that passes, if any does.
LEMMA FirstIs ==
    ASSUME NEW dirs \in Seq(Instances), NEW alive,
           NEW k \in 1 .. Len(dirs), dirs[k] \in alive
    PROVE  \E n \in 1 .. k :
              /\ FirstOf(dirs, alive) = dirs[n] /\ dirs[n] \in alive
              /\ \A m \in 1 .. n - 1 : dirs[m] \notin alive
<1> DEFINE passing == {n \in 1 .. Len(dirs) : dirs[n] \in alive}
<1>1. Len(dirs) \in Nat /\ passing \in SUBSET Nat /\ k \in passing
  BY LenProperties
<1>2. Min(passing) \in passing /\ \A y \in passing : Min(passing) =< y
  <2> HIDE DEF passing
  <2>1. passing # {}
    BY <1>1
  <2>2. QED
    BY <1>1, <2>1, MinIn
<1>3. FirstOf(dirs, alive) = dirs[Min(passing)]
  BY <1>1 DEF FirstOf
<1> DEFINE n == Min(passing)
<1>4. n \in 1 .. k /\ dirs[n] \in alive
  BY <1>1, <1>2
<1> HIDE DEF n
<1>5. ASSUME NEW m \in 1 .. n - 1 PROVE dirs[m] \notin alive
  <2>1. m \in 1 .. Len(dirs)
    BY <1>1, <1>4
  <2>2. m \notin passing
    BY <1>1, <1>2, <1>4 DEF n
  <2>3. QED
    BY <2>1, <2>2
<1>6. FirstOf(dirs, alive) = dirs[n]
  BY <1>3 DEF n
<1>7. QED
  BY <1>4, <1>5, <1>6

\* FirstOf without a directory that passes.
LEMMA NoFirst ==
    ASSUME NEW dirs, NEW alive, FirstOf(dirs, alive) # None
    PROVE  \E k \in 1 .. Len(dirs) : dirs[k] \in alive
BY DEF FirstOf

\* What the picker shares is the instance of its preset, or the first alive.
LEMMA SharesFirst == ASSUME TypeOK, PickerShares PROVE SharedFirst'
<1>1. UNCHANGED <<lock, newest, preset>> /\ newest \in Seq(Instances)
  BY DEF PickerShares, world, TypeOK
<1>2. CASE shared' = Nothing
  BY <1>2 DEF SharedFirst, Nothing
<1>3. CASE Answers(PickerInstance) /\ shared'.instance = PickerInstance
  <2>1. CASE preset.picker \in AliveForPicker
    BY <1>1, <1>3, <2>1 DEF PickerInstance, SharedFirst
  <2>2. CASE preset.picker \notin AliveForPicker
    <3>1. PickerInstance = FirstOf(newest, AliveForPicker) /\ PickerInstance # None
      BY <1>3, <2>2 DEF PickerInstance, Answers
    <3>2. PICK k \in 1 .. Len(newest) : newest[k] \in AliveForPicker
      BY <3>1, NoFirst
    <3>3. PICK n \in 1 .. k :
             /\ FirstOf(newest, AliveForPicker) = newest[n]
             /\ \A m \in 1 .. n - 1 : newest[m] \notin AliveForPicker
      BY <1>1, <3>2, FirstIs
    <3>4. n \in 1 .. Len(newest) /\ Len(newest) \in Nat
      BY <1>1, <3>2, <3>3, LenProperties
    <3>5. ASSUME NEW m \in 1 .. n - 1 PROVE lock[newest[m]] # "live"
      <4>1. newest[m] \notin AliveForPicker /\ m \in 1 .. Len(newest)
        BY <3>3, <3>4
      <4>2. newest[m] \in Instances
        BY <1>1, <4>1, ElementOfSeq
      <4>3. QED
        BY <4>1, <4>2 DEF AliveForPicker
    <3>6. preset.picker \in Instances => lock[preset.picker] # "live"
      BY <2>2 DEF AliveForPicker
    <3>7. newest[n] = shared'.instance
      BY <1>3, <3>1, <3>3
    <3>8. QED
      BY <1>1, <3>4, <3>5, <3>6, <3>7 DEF SharedFirst
  <2>3. QED
    BY <2>1, <2>2
<1>4. QED
  BY <1>2, <1>3 DEF PickerShares

\* A directory that goes is behind that of the shared instance, or is its own.
LEMMA EndsBehind ==
    ASSUME TypeOK, SharedFirst, NEW i \in Instances, InstanceEnds(i)
    PROVE  SharedFirst'
<1>1. /\ UNCHANGED <<preset, shared, steady>> /\ lock[i] = "live"
      /\ lock'[i] # "live" /\ \A j \in Instances : j # i => lock'[j] = lock[j]
      /\ newest \in Seq(Instances) /\ Len(newest) \in Nat
  BY LenProperties DEF InstanceEnds, TypeOK
<1>2. SUFFICES ASSUME steady', shared'.instance # None, lock'[shared'.instance] = "live",
                      preset'.picker # shared'.instance
               PROVE  /\ preset'.picker \in Instances => lock'[preset'.picker] # "live"
                      /\ \E n \in 1 .. Len(newest') :
                           /\ newest'[n] = shared'.instance
                           /\ \A m \in 1 .. n - 1 : lock'[newest'[m]] # "live"
  BY DEF SharedFirst
<1> DEFINE s == shared.instance
<1>3. s \in Instances /\ s # i /\ lock[s] = "live"
  BY <1>1, <1>2 DEF TypeOK
<1>4. preset.picker \in Instances => lock[preset.picker] # "live"
  BY <1>1, <1>2, <1>3 DEF SharedFirst
<1>5. PICK n \in 1 .. Len(newest) :
         newest[n] = s /\ \A m \in 1 .. n - 1 : lock[newest[m]] # "live"
  BY <1>1, <1>2, <1>3 DEF SharedFirst
<1>6. \A m \in 1 .. n - 1 : newest[m] \in Instances /\ lock'[newest[m]] # "live"
  <2>1. \A m \in 1 .. n - 1 : m \in 1 .. Len(newest)
    BY <1>1
  <2>2. \A m \in 1 .. n - 1 : newest[m] \in Instances
    BY <1>1, <2>1, ElementOfSeq
  <2>3. QED
    BY <1>1, <1>5, <2>2
<1>7. n \in 1 .. Len(newest') /\ \A m \in 1 .. n : newest'[m] = newest[m]
  <2>1. CASE newest' = newest
    BY <2>1
  <2>2. ASSUME NEW k \in 1 .. Len(newest), newest[k] = i, newest' = RemoveAt(newest, k)
        PROVE  n \in 1 .. Len(newest') /\ \A m \in 1 .. n : newest'[m] = newest[m]
    <3>1. n < k
      BY <1>1, <1>3, <1>5, <2>2
    <3> DEFINE front == SubSeq(newest, 1, k - 1)
               back == SubSeq(newest, k + 1, Len(newest))
    <3>2. /\ front \in Seq(Instances) /\ Len(front) = k - 1
          /\ \A m \in 1 .. k - 1 : front[m] = newest[m]
      BY <1>1, ElementOfSeq, SubSeqProperties
    <3>3. back \in Seq(Instances)
      BY <1>1, ElementOfSeq, SubSeqProperties
    <3>4. newest' = front \o back
      BY <2>2 DEF RemoveAt
    <3> HIDE DEF front, back
    <3>5. Len(newest') >= k - 1 /\ \A m \in 1 .. k - 1 : newest'[m] = front[m]
      BY <3>2, <3>3, <3>4, ConcatProperties, LenProperties
    <3>6. QED
      BY <1>1, <3>1, <3>2, <3>5
  <2>3. QED
    BY <2>1, <2>2 DEF InstanceEnds
<1>8. preset'.picker \in Instances => lock'[preset'.picker] # "live"
  BY <1>1, <1>4
<1>9. newest'[n] = s /\ \A m \in 1 .. n - 1 : lock'[newest'[m]] # "live"
  BY <1>5, <1>6, <1>7
<1>10. QED
  BY <1>1, <1>7, <1>8, <1>9

LEMMA SharedFirstStep == ASSUME ScreenInv, SharedFirst, [Next]_vars PROVE SharedFirst'
<1>1. TypeOK
  BY DEF ScreenInv
<1>2. CASE UNCHANGED vars
  BY <1>2 DEF vars, SharedFirst
<1>3. CASE PortalStarts
  BY <1>3 DEF PortalStarts, SharedFirst, Nothing
<1>4. CASE PickerShares
  BY <1>1, <1>4, SharesFirst
<1>5. ASSUME NEW i \in Instances, InstanceEnds(i) PROVE SharedFirst'
  BY <1>1, <1>5, EndsBehind
<1>6. ASSUME NEW i \in Instances, PidReused(i) PROVE SharedFirst'
  <2>1. /\ UNCHANGED <<newest, preset, shared, steady>> /\ newest \in Seq(Instances)
        /\ lock[i] = "dead" /\ lock'[i] \in {"own", "other"}
        /\ \A j \in Instances : j # i => lock'[j] = lock[j]
    BY <1>1, <1>6 DEF PidReused, TypeOK
  <2>2. \A j \in Instances : lock'[j] = "live" => lock[j] = "live"
    BY <2>1
  <2>3. shared.instance \in Instances \cup {None}
        /\ \A m \in 1 .. Len(newest) : newest[m] \in Instances
    BY <1>1, ElementOfSeq DEF TypeOK
  <2>4. Len(newest) \in Nat
    BY <2>1, LenProperties
  <2>5. QED
    BY <2>1, <2>2, <2>3, <2>4 DEF SharedFirst
<1>7. ASSUME NEW i \in Instances, NEW l \in Layouts, InstanceStarts(i, l)
      PROVE  SharedFirst'
  BY <1>7 DEF InstanceStarts, SharedFirst
<1>8. ASSUME NEW i \in Instances, NEW l \in Layouts, LayoutChanges(i, l)
      PROVE  SharedFirst'
  BY <1>8 DEF LayoutChanges, SharedFirst
<1>9. QED
  BY <1>2, <1>3, <1>4, <1>5, <1>6, <1>7, <1>8 DEF Next

\* The daemon, in the same environment, takes the shared instance, or stops at a
\* directory before it, whose PID is another process's.
LEMMA DaemonFollows == ASSUME TypeOK, SharedFirst PROVE WakesWhatIsShared
<1> DEFINE s == shared.instance
<1>1. SUFFICES ASSUME steady, s # None, lock[s] = "live", preset.service = preset.picker
               PROVE  ServiceInstance = s \/ lock[ServiceInstance] \in {"own", "other"}
  BY DEF WakesWhatIsShared
<1>2. s \in Instances /\ s \in AliveForService
  BY <1>1 DEF TypeOK, AliveForService
<1>3. CASE preset.service = s
  BY <1>2, <1>3 DEF ServiceInstance
<1>4. CASE preset.service # s /\ preset.service \in AliveForService
  BY <1>1, <1>2, <1>4 DEF ServiceInstance, SharedFirst, AliveForService
<1>5. CASE preset.service # s /\ preset.service \notin AliveForService
  <2>1. PICK k \in 1 .. Len(newest) :
           newest[k] = s /\ \A m \in 1 .. k - 1 : lock[newest[m]] # "live"
    BY <1>1, <1>5 DEF SharedFirst
  <2>2. newest \in Seq(Instances) /\ Len(newest) \in Nat
    BY LenProperties DEF TypeOK
  <2>3. PICK n \in 1 .. k :
           FirstOf(newest, AliveForService) = newest[n] /\ newest[n] \in AliveForService
    BY <1>2, <2>1, <2>2, FirstIs
  <2>4. ServiceInstance = newest[n]
    BY <1>5, <2>3 DEF ServiceInstance
  <2>5. n = k \/ lock[newest[n]] # "live"
    BY <2>1, <2>2, <2>3
  <2>6. QED
    BY <2>1, <2>3, <2>4, <2>5 DEF AliveForService
<1>6. QED
  BY <1>3, <1>4, <1>5

\* _get_hypr_env of the daemon takes the instance that hyprcrd-picker shared,
\* for any number of instances and whichever of them end, crash or change their
\* monitors meanwhile, unless a lock file it meets first names a reused PID.
THEOREM SameInstance == Spec => []WakesWhatIsShared
<1>1. Init => SharedFirst
  BY DEF Init, SharedFirst, Nothing
<1>2. ScreenInv /\ SharedFirst /\ [Next]_vars => SharedFirst'
  BY SharedFirstStep
<1>3. ScreenInv /\ SharedFirst => WakesWhatIsShared
  BY DaemonFollows DEF ScreenInv
<1>4. QED
  BY <1>1, <1>2, <1>3, Invariance, PTL DEF Spec

----------------------------------------------------------------------------
(* Absolute positions. *)

LEMMA MinOfOne == ASSUME NEW x \in Int PROVE Min({x}) = x
BY DEF Min

LEMMA MaxOfOne == ASSUME NEW x \in Int PROVE Max({x}) = x
BY DEF Max

LEMMA MinOfTwo == ASSUME NEW x \in Int, NEW y \in Int, x =< y PROVE Min({x, y}) = x
BY DEF Min

LEMMA DivisionUndone ==
    ASSUME NEW w \in Nat \ {0}, NEW p \in Nat PROVE (w * p) \div w = p
OBVIOUS

\* The area of a lone monitor at the origin, of the layout or of the monitor.
LEMMA LoneArea ==
    ASSUME NEW l \in Layouts, Len(l) = 1, l[1].x = 0, NEW area \in Areas(l)
    PROVE  area.x = 0 /\ area.width = l[1].width
<1>1. l[1].width \in Int
  <2>1. l \in Seq(Monitors) /\ 1 \in 1 .. Len(l)
    BY ScreenAssumption
  <2>2. l[1] \in Monitors
    BY <2>1, ElementOfSeq
  <2>3. QED
    BY <2>2, ScreenAssumption DEF Monitors
<1>2. /\ {l[n].x : n \in 1 .. Len(l)} = {0}
      /\ {l[n].x + l[n].width : n \in 1 .. Len(l)} = {l[1].width}
  BY <1>1
<1>3. Min({0}) = 0 /\ Max({l[1].width}) = l[1].width
  BY <1>1, MinOfOne, MaxOfOne
<1>4. Areas(l) = {[x |-> 0, width |-> l[1].width - 0]}
                    \cup {[x |-> l[n].x, width |-> l[n].width] : n \in 1 .. Len(l)}
  BY <1>2, <1>3 DEF Areas
<1>5. QED
  BY <1>1, <1>4

\* A position inside the region of a lone monitor at the origin, whose request
\* handle_eis_event sends with the width as the extent, arrives at its place
\* for every width and position, whichever area the compositor spans.
THEOREM LandsThere == Spec => []LandsWhereMeant
<1>1. ASSUME ScreenInv PROVE LandsWhereMeant
  <2>1. SUFFICES ASSUME NEW i \in Instances, i = source, fresh, Len(layout[i]) = 1,
                        layout[i][1].x = 0, NEW p \in 0 .. region.width - 1,
                        NEW offset \in Offsets, NEW area \in Areas(layout[i])
                 PROVE  Landing(area, RequestX(offset, p)) = p
    BY DEF LandsWhereMeant
  <2> DEFINE w == region.width
  <2>2. i # None /\ UintRange \in Nat \ {0}
    BY ScreenAssumption
  <2>3. layout[i] \in Layouts \cup {<<>>} /\ layout[i] # <<>>
    BY <1>1, <2>1, <2>2 DEF ScreenInv, RegionRead, TypeOK
  <2>4. layout[i] \in Layouts /\ Head(layout[i]) \in Monitors
        /\ Head(layout[i]) = layout[i][1]
    BY <2>3, HeadIsMonitor
  <2>5. w = layout[i][1].width /\ region.x \in ToUint(0)
    BY <1>1, <2>1, <2>2, <2>4 DEF ScreenInv, RegionRead
  <2>6. region.x = 0
    BY <2>5 DEF ToUint
  <2>7. w \in 1 .. UintRange - 1
    BY <2>4, <2>5 DEF Monitors
  <2>8. area.x = 0 /\ area.width = w
    BY <2>1, <2>4, <2>5, LoneArea
  <2>9. RequestX(offset, p) = p
    BY <2>1, <2>2, <2>6, <2>7 DEF RequestX, Offsets
  <2>10. Min({p, w}) = p /\ w \in Nat \ {0} /\ p \in Nat
    BY <2>2, <2>7, MinOfTwo
  <2>11. (w * p) \div w = p
    BY <2>10, DivisionUndone
  <2>12. QED
    BY <2>8, <2>9, <2>10, <2>11 DEF Landing, Extent
<1>2. QED
  BY <1>1, Invariance, PTL
=============================================================================
