--------------------------- MODULE ScreenSelection ---------------------------
(****************************************************************************)
(* Which Hyprland instance and which monitor the parts of hyprCRD mean. The  *)
(* daemon wakes the displays of an instance (_get_hypr_env), the picker      *)
(* shares the first monitor of one, and the portal reads the first monitor   *)
(* once, at its start, offers it to input clients as a region for absolute   *)
(* positions, and sends these positions on. A layout is a line of monitors:  *)
(* the second coordinate works as the first does.                            *)
(****************************************************************************)
EXTENDS Integers, SequencesExt

CONSTANTS
    Instances,    \* the instances' signatures, each the name of a directory
    Layouts,      \* the sequences of monitors an instance may have
    Default,      \* the monitor the portal and the picker assume without hyprctl
    UintRange,    \* 2^32 in the code (a bound)
    None          \* no signature, no instance

\* What hyprctl reports of a monitor; its place may be negative.
Monitors == [name : STRING, x : -UintRange .. UintRange - 1,
             width : 1 .. UintRange - 1]

ASSUME ScreenAssumption ==
    /\ None \notin Instances
    /\ UintRange \in Nat \ {0}
    /\ Layouts \subseteq Seq(Monitors)
    /\ Default \in Monitors /\ Default.x = 0

VARIABLES
    lock,      \* whose PID the lock file of each instance's directory holds
    newest,    \* the directories, the newest first
    layout,    \* the monitors of each instance
    preset,    \* HYPRLAND_INSTANCE_SIGNATURE in the environment of each program
    region,    \* the portal's current_monitor
    source,    \* history: the instance region was read from
    fresh,     \* history: that instance's monitors are as they were then
    shared,    \* what the picker shared since: an instance and a monitor's name
    steady     \* history: no instance has started since then

vars == <<lock, newest, layout, preset, region, source, fresh, shared, steady>>
world == <<lock, newest, layout, preset>>

\* The PID is that of the instance, or nobody's, or has gone to another process
\* of this or of another user.
Locks == {"absent", "live", "dead", "own", "other"}

Nothing == [instance |-> None, name |-> Default.name]

----------------------------------------------------------------------------
(* The instance. *)

\* Both test the PID with signal 0. os.kill raises PermissionError for another
\* user's process, which instance_alive takes for alive; to the shell's kill it
\* is a failure like any other.
AliveForService == {i \in Instances : lock[i] \in {"live", "own", "other"}}
AliveForPicker == {i \in Instances : lock[i] \in {"live", "own"}}

\* The first directory that passes the test.
FirstOf(dirs, alive) ==
    LET passing == {n \in 1 .. Len(dirs) : dirs[n] \in alive}
    IN  IF passing = {} THEN None ELSE dirs[Min(passing)]

\* Faulty form of ServiceInstance: the directories are tried oldest first.
OldestInstance ==
    IF preset.service \in AliveForService
      THEN preset.service ELSE FirstOf(Reverse(newest), AliveForService)

\* The preset signature if it is alive, or else the newest that is.
ServiceInstance ==
    IF preset.service \in AliveForService
      THEN preset.service ELSE FirstOf(newest, AliveForService)

PickerInstance ==
    IF preset.picker \in AliveForPicker
      THEN preset.picker ELSE FirstOf(newest, AliveForPicker)

\* hyprctl may answer for a signature whose instance lives.
Answers(i) == i # None /\ lock[i] = "live" /\ layout[i] # <<>>

----------------------------------------------------------------------------
(* The monitor. *)

\* Faulty form of ToUint: the coordinate keeps its sign.
Signed(x) == {x}

\* A double below zero has no value as a uint32_t: the conversion wraps or
\* saturates, as the processor does it.
ToUint(x) == IF x >= 0 THEN {x} ELSE {x + UintRange, 0}

\* Faulty form of Primary: the monitor listed last.
LastListed(l) == Last(l)

\* The monitor hyprctl lists first.
Primary(l) == Head(l)

\* Portal::init reads with the environment as it is. Without an answer every
\* field has its default.
PortalStarts ==
    /\ \/ /\ Answers(preset.service)
          /\ LET m == Primary(layout[preset.service])
             IN  region' \in {[m EXCEPT !.x = x] : x \in ToUint(m.x)}
          /\ source' = preset.service
       \/ region' = Default /\ source' = None
    /\ fresh' = TRUE
    /\ shared' = Nothing
    /\ UNCHANGED <<world, steady>>

PickerShares ==
    /\ \/ /\ Answers(PickerInstance)
          /\ shared' = [instance |-> PickerInstance,
                        name |-> Head(layout[PickerInstance]).name]
       \/ shared' = Nothing
    /\ steady' = TRUE
    /\ UNCHANGED <<world, region, source, fresh>>

----------------------------------------------------------------------------
(* Absolute positions. *)

\* SEAT_BIND offers the monitor, and a region of the same size at the origin;
\* a client adds the offset of the region it moves in.
Offsets == {region.x, 0}

\* Faulty form of RequestX: the region's width is added for its offset.
RequestPastEnd(offset, p) == (offset + p + region.width) % UintRange

\* The handler sends what the client said, with the width as the extent.
RequestX(offset, p) == (offset + p) % UintRange
Extent == region.width

\* The compositor spans the extent over the whole layout or over one monitor.
Areas(l) ==
    LET left == Min({l[n].x : n \in 1 .. Len(l)})
        right == Max({l[n].x + l[n].width : n \in 1 .. Len(l)})
    IN  {[x |-> left, width |-> right - left]}
            \cup {[x |-> l[n].x, width |-> l[n].width] : n \in 1 .. Len(l)}

Landing(area, x) == area.x + (area.width * Min({x, Extent})) \div Extent

----------------------------------------------------------------------------
(* The session of Hyprland. *)

InstanceStarts(i, l) ==
    /\ lock[i] = "absent"
    /\ lock' = [lock EXCEPT ![i] = "live"]
    /\ newest' = <<i>> \o newest
    /\ layout' = [layout EXCEPT ![i] = l]
    /\ steady' = FALSE
    /\ UNCHANGED <<preset, region, source, fresh, shared>>

\* An instance that crashes leaves its directory and the lock in it.
InstanceEnds(i) ==
    /\ lock[i] = "live"
    /\ \/ lock' = [lock EXCEPT ![i] = "dead"] /\ UNCHANGED newest
       \/ /\ lock' = [lock EXCEPT ![i] = "absent"]
          /\ \E n \in 1 .. Len(newest) :
                newest[n] = i /\ newest' = RemoveAt(newest, n)
    /\ fresh' = (fresh /\ i # source)
    /\ UNCHANGED <<layout, preset, region, source, shared, steady>>

PidReused(i) ==
    /\ lock[i] = "dead"
    /\ \E whose \in {"own", "other"} : lock' = [lock EXCEPT ![i] = whose]
    /\ UNCHANGED <<newest, layout, preset, region, source, fresh, shared, steady>>

LayoutChanges(i, l) ==
    /\ lock[i] = "live" /\ l # layout[i]
    /\ layout' = [layout EXCEPT ![i] = l]
    /\ fresh' = (fresh /\ i # source)
    /\ UNCHANGED <<lock, newest, preset, region, source, shared, steady>>

----------------------------------------------------------------------------
Init ==
    /\ lock = [i \in Instances |-> "absent"]
    /\ newest = <<>>
    /\ layout = [i \in Instances |-> <<>>]
    /\ preset \in [service : Instances \cup {None}, picker : Instances \cup {None}]
    /\ region = Default
    /\ source = None
    /\ fresh = TRUE
    /\ shared = Nothing
    /\ steady = TRUE

Next ==
    \/ PortalStarts
    \/ PickerShares
    \/ \E i \in Instances :
         \/ InstanceEnds(i) \/ PidReused(i)
         \/ \E l \in Layouts : InstanceStarts(i, l) \/ LayoutChanges(i, l)

Spec == Init /\ [][Next]_vars

----------------------------------------------------------------------------
(* Properties. *)

Names == {Default.name} \cup UNION {{l[n].name : n \in 1 .. Len(l)} : l \in Layouts}

\* The type invariant.
TypeOK ==
    /\ lock \in [Instances -> Locks]
    /\ newest \in Seq(Instances)
    /\ layout \in [Instances -> Layouts \cup {<<>>}]
    /\ preset \in [service : Instances \cup {None}, picker : Instances \cup {None}]
    /\ region.x \in 0 .. UintRange - 1 /\ region.width \in 1 .. UintRange - 1
    /\ source \in Instances \cup {None}
    /\ fresh \in BOOLEAN /\ steady \in BOOLEAN
    /\ shared \in [instance : Instances \cup {None}, name : Names]

\* While the instance the picker shared lives and no other has started since,
\* it is the one whose displays the daemon wakes, given the same environment,
\* whatever instances end and whatever directories and locks they leave; or
\* else the daemon takes a directory whose PID has gone to another process.
WakesWhatIsShared ==
    /\ steady /\ shared.instance # None /\ lock[shared.instance] = "live"
    /\ preset.service = preset.picker
    => ServiceInstance = shared.instance \/ lock[ServiceInstance] \in {"own", "other"}

\* Not kept by the code: the daemon wakes the shared instance in every such case.
WakesNothingElse ==
    /\ steady /\ shared.instance # None /\ lock[shared.instance] = "live"
    /\ preset.service = preset.picker
    => ServiceInstance = shared.instance

\* The region the portal offers names the monitor the picker shares, as long as
\* the monitors are those the portal read, or neither got an answer.
SharedIsRegion ==
    fresh /\ shared.instance = source => shared.name = region.name

\* With one monitor, at the origin, a position inside a region arrives at that
\* place of the monitor.
LandsWhereMeant ==
    \A i \in Instances :
        i = source /\ fresh /\ Len(layout[i]) = 1 /\ layout[i][1].x = 0 =>
            \A p \in 0 .. region.width - 1, offset \in Offsets, area \in Areas(layout[i]) :
                Landing(area, RequestX(offset, p)) = p

\* Not kept by the code, the same for any layout.
LandsOnMonitor ==
    \A i \in Instances :
        i = source /\ fresh =>
            \A p \in 0 .. region.width - 1, area \in Areas(layout[i]) :
                Landing(area, RequestX(region.x, p)) = layout[i][1].x + p

\* "Value of x can range from 0 to x_extent": the requests of the positions
\* inside the regions stay in that range.
PositionsInExtent ==
    \A p \in 0 .. region.width - 1, offset \in Offsets : RequestX(offset, p) <= Extent

\* Not kept by the code: the region is a monitor of the running session.
RegionIsCurrent == source # None => fresh
=============================================================================
