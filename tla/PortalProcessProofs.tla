------------------------ MODULE PortalProcessProofs ------------------------
(****************************************************************************)
(* main's order of initialisation, joining and cleaning up keeps the two    *)
(* threads it joins away from what it destroys, for any number of the       *)
(* threads it does not join.                                                *)
(****************************************************************************)
EXTENDS PortalProcess, TLAPS

\* The steps of main, in order, from the start of a thread to its join.
PortalSteps == {"wait", "stopPortal", "joinPortal"}
NamedSteps == PortalSteps \cup {"startPortal", "stopLibei", "joinLibei", "cleanPortal"}
LibeiSteps == (NamedSteps \ {"cleanPortal"}) \cup {"initPortal"}
ContextSteps == NamedSteps \cup {"startLibei", "initPortal", "failPortal", "cleanLibei"}
DeviceSteps == ContextSteps \cup {"initPointer", "initLibei", "cleanDevices"}
FailedSteps == {"failPortal", "failed", "abort"}

Active == {"begin", "loop", "use"}

\* What exists and what is at work follows from main's next step.
ObjectsFollowMain ==
    /\ main \in DeviceSteps => keyboard = "up"
    /\ main \in ContextSteps => context = "up"
    /\ nameOwned => main \in NamedSteps

ThreadsFollowMain ==
    /\ portal \in Active => main \in PortalSteps
    /\ libei \in Active => main \in LibeiSteps \cup FailedSteps

IInv == TypeOK /\ ObjectsFollowMain /\ ThreadsFollowMain /\ JoinedThreadsAreSafe

\* Before main's first step there is nothing to use.
LEMMA InitIInv == Init => IInv
BY DEF Init, IInv, TypeOK, ObjectsFollowMain, ThreadsFollowMain, JoinedThreadsAreSafe,
       MainSteps, ThreadSteps, PortalSteps, NamedSteps, LibeiSteps, ContextSteps,
       DeviceSteps, FailedSteps, Active, Ended

\* The steps before main waits: a failing one leads to a return, and only the
\* failure of Portal::init leaves a thread behind.
LEMMA StartStep ==
    ASSUME IInv, \/ InitKeyboard \/ InitPointer \/ InitLibei \/ StartLibei
                 \/ InitPortal \/ FailPortal \/ StartPortal
    PROVE  IInv'
<1> USE DEF IInv, TypeOK, ObjectsFollowMain, ThreadsFollowMain, JoinedThreadsAreSafe,
            MainSteps, ThreadSteps, PortalSteps, NamedSteps, LibeiSteps, ContextSteps,
            DeviceSteps, FailedSteps, Active, Ended, Goto
<1>1. CASE InitKeyboard
  BY <1>1 DEF InitKeyboard
<1>2. CASE InitPointer
  BY <1>2 DEF InitPointer
<1>3. CASE InitLibei
  BY <1>3 DEF InitLibei
<1>4. CASE StartLibei
  BY <1>4 DEF StartLibei
<1>5. CASE InitPortal
  <2>1. libei \in ThreadSteps /\ portal \notin Active /\ "libei" \notin misused
    BY <1>5 DEF InitPortal
  <2>2. CASE main' = "startPortal" /\ nameOwned' = TRUE
    BY <1>5, <2>1, <2>2 DEF InitPortal
  <2>3. CASE main' = "failPortal" /\ nameOwned' = nameOwned
    BY <1>5, <2>1, <2>3 DEF InitPortal
  <2>4. QED
    BY <1>5, <2>2, <2>3 DEF InitPortal
<1>6. CASE FailPortal
  BY <1>6 DEF FailPortal
<1>7. CASE StartPortal
  BY <1>7 DEF StartPortal
<1>8. QED
  BY <1>1, <1>2, <1>3, <1>4, <1>5, <1>6, <1>7

\* The steps after the signal: a join is passed by a thread that is done, and
\* what the thread uses is destroyed behind it.
LEMMA StopStep ==
    ASSUME IInv, \/ Wait \/ StopPortal \/ JoinPortal \/ StopLibei \/ JoinLibei
                 \/ CleanPortal \/ CleanLibei \/ CleanDevices \/ Return
    PROVE  IInv'
<1> USE DEF IInv, TypeOK, ObjectsFollowMain, ThreadsFollowMain, JoinedThreadsAreSafe,
            MainSteps, ThreadSteps, PortalSteps, NamedSteps, LibeiSteps, ContextSteps,
            DeviceSteps, FailedSteps, Active, Ended, Goto, Joined
<1>1. CASE Wait
  BY <1>1 DEF Wait
<1>2. CASE StopPortal
  BY <1>2 DEF StopPortal, LeaveLoop
<1>3. CASE JoinPortal
  BY <1>3 DEF JoinPortal
<1>4. CASE StopLibei
  BY <1>4 DEF StopLibei
<1>5. CASE JoinLibei
  BY <1>5 DEF JoinLibei
<1>6. CASE CleanPortal
  BY <1>6 DEF CleanPortal
<1>7. CASE CleanLibei
  BY <1>7 DEF CleanLibei
<1>8. CASE CleanDevices
  BY <1>8 DEF CleanDevices
<1>9. CASE Return
  BY <1>9 DEF Return
<1>10. QED
  BY <1>1, <1>2, <1>3, <1>4, <1>5, <1>6, <1>7, <1>8, <1>9

\* The joined threads: an active one finds what it uses, unless Portal::init
\* failed.
LEMMA ThreadStep ==
    ASSUME IInv, \/ Signal \/ Libei
                 \/ PortalBegins \/ PortalNotify \/ PortalSends \/ PortalLeaves \/ PortalFails
    PROVE  IInv'
<1> USE DEF IInv, TypeOK, ObjectsFollowMain, ThreadsFollowMain, JoinedThreadsAreSafe,
            MainSteps, ThreadSteps, PortalSteps, NamedSteps, LibeiSteps, ContextSteps,
            DeviceSteps, FailedSteps, Active, Ended, Uses
<1>1. CASE Signal
  BY <1>1 DEF Signal
<1>2. CASE Libei
  <2>1. CASE LibeiBegins
    <3>1. libei' \in {"loop", "done"} /\ libei \in Active /\ libeiRunning' \in BOOLEAN
      BY <2>1 DEF LibeiBegins
    <3>2. QED
      BY <2>1, <3>1 DEF LibeiBegins
  <2>2. CASE LibeiLoops
    BY <2>2 DEF LibeiLoops
  <2>3. CASE LibeiWaits
    <3>1. context = "up" \/ main = "failed"
      BY <2>3 DEF LibeiWaits
    <3>2. /\ misused' \subseteq {"libei", "portal", "eis"}
          /\ JoinedThreadsAreSafe'
      BY <2>3, <3>1 DEF LibeiWaits
    <3>3. QED
      BY <2>3, <3>2 DEF LibeiWaits
  <2>4. QED
    BY <1>2, <2>1, <2>2, <2>3 DEF Libei
<1>3. CASE PortalBegins \/ PortalNotify \/ PortalLeaves \/ PortalFails
  <2>1. portal \in Active /\ portal' \in ThreadSteps /\ portalRunning' \in BOOLEAN
    BY <1>3 DEF PortalBegins, PortalNotify, PortalLeaves, PortalFails
  <2>2. UNCHANGED <<main, signalled, keyboard, context, libei, libeiRunning, leave,
                    nameOwned, eis, misused>>
    BY <1>3 DEF PortalBegins, PortalNotify, PortalLeaves, PortalFails
  <2>3. QED
    BY <2>1, <2>2
<1>4. CASE PortalSends
  <2>1. keyboard = "up"
    BY <1>4 DEF PortalSends
  <2>2. misused' = misused
    BY <1>4, <2>1 DEF PortalSends
  <2>3. QED
    BY <1>4, <2>2 DEF PortalSends
<1>5. QED
  BY <1>1, <1>2, <1>3, <1>4

\* A detached thread touches nothing but itself and its own misuse.
LEMMA EisStep ==
    ASSUME IInv, NEW i \in EisThreads,
           ConnectToEIS(i) \/ EisEnds(i) \/ EisEvent(i) \/ EisSends(i)
    PROVE  IInv'
<1>1. /\ main \notin Ended /\ eis' \in [EisThreads -> ThreadSteps]
      /\ misused' \in {misused, misused \cup {"eis"}}
      /\ UNCHANGED <<main, signalled, keyboard, context, libei, libeiRunning, portal,
                     portalRunning, leave, nameOwned>>
  BY DEF ConnectToEIS, EisEnds, EisEvent, EisSends, EisMoves, Uses, IInv, TypeOK,
         ThreadSteps
<1>2. QED
  BY <1>1 DEF IInv, TypeOK, ObjectsFollowMain, ThreadsFollowMain, JoinedThreadsAreSafe

\* Every step of the process keeps the invariant.
LEMMA NextIInv == IInv /\ [Next]_vars => IInv'
<1> SUFFICES ASSUME IInv, [Next]_vars PROVE IInv'
  OBVIOUS
<1>1. CASE Main
  BY <1>1, StartStep, StopStep DEF Main
<1>2. CASE \/ Signal \/ Libei
           \/ PortalBegins \/ PortalNotify \/ PortalSends \/ PortalLeaves \/ PortalFails
  BY <1>2, ThreadStep
<1>3. CASE \E i \in EisThreads :
               ConnectToEIS(i) \/ EisEnds(i) \/ EisEvent(i) \/ EisSends(i)
  BY <1>3, EisStep
<1>4. CASE UNCHANGED vars
  BY <1>4 DEF vars, IInv, TypeOK, ObjectsFollowMain, ThreadsFollowMain,
              JoinedThreadsAreSafe
<1>5. QED
  BY <1>1, <1>2, <1>3, <1>4 DEF Next

LEMMA Invariance == Spec => []IInv
BY InitIInv, NextIInv, PTL DEF Spec

\* TypeOK, the type invariant of the process, with any number of EIS threads.
THEOREM TypeCorrect == Spec => []TypeOK
<1>1. IInv => TypeOK
  BY DEF IInv
<1>2. QED
  BY <1>1, Invariance, PTL

\* JoinedThreadsAreSafe: whenever the signal comes, the libei thread and the
\* D-Bus thread have ended before main destroys what they use; the libei thread
\* can only miss its context after Portal::init failed.
THEOREM JoinedSafe == Spec => []JoinedThreadsAreSafe
<1>1. IInv => JoinedThreadsAreSafe
  BY DEF IInv
<1>2. QED
  BY <1>1, Invariance, PTL

\* NameImpliesDevices: the connection that owns the bus name is opened after
\* the devices and the context are there, and closed before they go.
THEOREM NamedHasDevices == Spec => []NameImpliesDevices
<1>1. IInv => NameImpliesDevices
  BY DEF IInv, ObjectsFollowMain, NameImpliesDevices, NamedSteps, ContextSteps, DeviceSteps
<1>2. QED
  BY <1>1, Invariance, PTL
=============================================================================
