---------------------------- MODULE PortalProcess ----------------------------
(****************************************************************************)
(* The life of the hyprcrd-portal process (main.cpp): four components are   *)
(* initialised in order, a libei thread and a D-Bus thread are started, main *)
(* waits for a signal, stops and joins the threads and cleans up in reverse  *)
(* order. ConnectToEIS detaches one more thread per call; nobody joins those.*)
(* The flags they share, running of main.cpp, Portal and LibEIHandler, are   *)
(* plain booleans.                                                           *)
(****************************************************************************)
EXTENDS Naturals, FiniteSets

CONSTANTS
    EisThreads     \* identities for the threads of ConnectToEIS (a bound)

VARIABLES
    main,           \* the next step of main, or how the process ended
    signalled,      \* a SIGINT or SIGTERM has come: running is false
    keyboard,       \* the virtual keyboard (the pointer goes with it)
    context,        \* the EI receiver context of LibEIHandler
    libei,          \* the libei thread
    libeiRunning,   \* LibEIHandler::running
    portal,         \* the D-Bus thread
    portalRunning,  \* Portal::running
    leave,          \* sdbus's event loop has been told to return
    nameOwned,      \* the connection that owns the portal's bus name is open
    eis,            \* the detached threads
    misused         \* history: threads that used what was already destroyed

vars == <<main, signalled, keyboard, context, libei, libeiRunning, portal,
          portalRunning, leave, nameOwned, eis, misused>>

Ended == {"exit0", "exit1", "abort"}
MainSteps == {"initKeyboard", "initPointer", "initLibei", "startLibei",
              "initPortal", "failPortal", "startPortal", "wait", "stopPortal",
              "joinPortal", "stopLibei", "joinLibei", "cleanPortal",
              "cleanLibei", "cleanDevices", "failed", "return"} \cup Ended
ThreadSteps == {"none", "begin", "loop", "use", "done"}

----------------------------------------------------------------------------
(* main. *)

Goto(from, to) == main = from /\ main' = to

\* What an init that fails leads to: the components before it are cleaned up
\* and main returns 1.
InitKeyboard ==
    /\ \/ Goto("initKeyboard", "initPointer") /\ keyboard' = "up"
       \/ Goto("initKeyboard", "exit1") /\ UNCHANGED keyboard
    /\ UNCHANGED <<signalled, context, libei, libeiRunning, portal,
                   portalRunning, leave, nameOwned, eis, misused>>

InitPointer ==
    /\ \/ Goto("initPointer", "initLibei") /\ UNCHANGED keyboard
       \/ Goto("initPointer", "exit1") /\ keyboard' = "gone"
    /\ UNCHANGED <<signalled, context, libei, libeiRunning, portal,
                   portalRunning, leave, nameOwned, eis, misused>>

InitLibei ==
    /\ \/ Goto("initLibei", "startLibei") /\ context' = "up"
                                          /\ UNCHANGED keyboard
       \/ Goto("initLibei", "exit1") /\ keyboard' = "gone" /\ UNCHANGED context
    /\ UNCHANGED <<signalled, libei, libeiRunning, portal, portalRunning, leave,
                   nameOwned, eis, misused>>

StartLibei ==
    /\ Goto("startLibei", "initPortal")
    /\ libei' = "begin"
    /\ UNCHANGED <<signalled, keyboard, context, libeiRunning, portal,
                   portalRunning, leave, nameOwned, eis, misused>>

\* Portal::init: connect, request the name, export the object. Its failure
\* comes after libei_thread was started.
InitPortal ==
    /\ \/ Goto("initPortal", "startPortal") /\ nameOwned' = TRUE
       \/ Goto("initPortal", "failPortal") /\ UNCHANGED nameOwned
    /\ UNCHANGED <<signalled, keyboard, context, libei, libeiRunning, portal,
                   portalRunning, leave, eis, misused>>

\* The handler, the pointer and the keyboard are cleaned up under the libei
\* thread.
FailPortal ==
    /\ Goto("failPortal", "failed")
    /\ libeiRunning' = FALSE
    /\ context' = "gone"
    /\ keyboard' = "gone"
    /\ UNCHANGED <<signalled, libei, portal, portalRunning, leave, nameOwned,
                   eis, misused>>

StartPortal ==
    /\ Goto("startPortal", "wait")
    /\ portal' = "begin"
    /\ UNCHANGED <<signalled, keyboard, context, libei, libeiRunning,
                   portalRunning, leave, nameOwned, eis, misused>>

Wait ==
    /\ Goto("wait", "stopPortal") /\ signalled
    /\ UNCHANGED <<signalled, keyboard, context, libei, libeiRunning, portal,
                   portalRunning, leave, nameOwned, eis, misused>>

\* Faulty form of LeaveLoop: only Portal::running is cleared.
FlagOnly == leave

LeaveLoop == TRUE

StopPortal ==
    /\ Goto("stopPortal", "joinPortal")
    /\ portalRunning' = FALSE
    /\ leave' = LeaveLoop
    /\ UNCHANGED <<signalled, keyboard, context, libei, libeiRunning, portal,
                   nameOwned, eis, misused>>

\* Faulty form of Joined: main does not wait for the thread.
NotJoined(thread) == TRUE

Joined(thread) == thread = "done"

JoinPortal ==
    /\ Goto("joinPortal", "stopLibei") /\ Joined(portal)
    /\ UNCHANGED <<signalled, keyboard, context, libei, libeiRunning, portal,
                   portalRunning, leave, nameOwned, eis, misused>>

StopLibei ==
    /\ Goto("stopLibei", "joinLibei")
    /\ libeiRunning' = FALSE
    /\ UNCHANGED <<signalled, keyboard, context, libei, portal, portalRunning,
                   leave, nameOwned, eis, misused>>

JoinLibei ==
    /\ Goto("joinLibei", "cleanPortal") /\ Joined(libei)
    /\ UNCHANGED <<signalled, keyboard, context, libei, libeiRunning, portal,
                   portalRunning, leave, nameOwned, eis, misused>>

\* Faulty form of CleanPortal: the connection stays open.
CleanKeepsConnection ==
    /\ Goto("cleanPortal", "cleanLibei")
    /\ portalRunning' = FALSE
    /\ UNCHANGED <<signalled, keyboard, context, libei, libeiRunning, portal,
                   leave, nameOwned, eis, misused>>

CleanPortal ==
    /\ Goto("cleanPortal", "cleanLibei")
    /\ portalRunning' = FALSE
    /\ nameOwned' = FALSE
    /\ UNCHANGED <<signalled, keyboard, context, libei, libeiRunning, portal,
                   leave, eis, misused>>

\* Faulty form of CleanLibei: the context is freed, the pointer to it stays.
CleanLeavesPointer ==
    /\ Goto("cleanLibei", "cleanDevices")
    /\ libeiRunning' = FALSE
    /\ context' = "dangling"
    /\ UNCHANGED <<signalled, keyboard, libei, portal, portalRunning, leave,
                   nameOwned, eis, misused>>

CleanLibei ==
    /\ Goto("cleanLibei", "cleanDevices")
    /\ libeiRunning' = FALSE
    /\ context' = "gone"
    /\ UNCHANGED <<signalled, keyboard, libei, portal, portalRunning, leave,
                   nameOwned, eis, misused>>

CleanDevices ==
    /\ Goto("cleanDevices", "return")
    /\ keyboard' = "gone"
    /\ UNCHANGED <<signalled, context, libei, libeiRunning, portal,
                   portalRunning, leave, nameOwned, eis, misused>>

\* Returning from main destroys its locals: after a failed Portal::init a
\* std::thread that is still joinable is one of them, and ends the process.
Return ==
    /\ Goto("return", "exit0") \/ Goto("failed", "abort")
    /\ UNCHANGED <<signalled, keyboard, context, libei, libeiRunning, portal,
                   portalRunning, leave, nameOwned, eis, misused>>

Main == \/ InitKeyboard \/ InitPointer \/ InitLibei \/ StartLibei \/ InitPortal
        \/ FailPortal \/ StartPortal \/ Wait \/ StopPortal \/ JoinPortal
        \/ StopLibei \/ JoinLibei \/ CleanPortal \/ CleanLibei \/ CleanDevices
        \/ Return

\* The signal handler; signals are caught from the start of main.
Signal ==
    /\ ~signalled /\ main \notin Ended
    /\ signalled' = TRUE
    /\ UNCHANGED <<main, keyboard, context, libei, libeiRunning, portal,
                   portalRunning, leave, nameOwned, eis, misused>>

----------------------------------------------------------------------------
(* The libei thread: LibEIHandler::run. Its context never gets a backend, so *)
(* it has no events; it waits on the context's descriptor, 100 ms at a time, *)
(* and gives up when there is no descriptor or select fails, as it does when  *)
(* the signal is delivered to this thread.                                    *)

\* A thread that touches what is no longer there.
Uses(who, thing) == misused' = IF thing = "up" THEN misused
                                               ELSE misused \cup {who}

LibeiBegins ==
    /\ main \notin Ended /\ libei = "begin"
    /\ \/ /\ context # "up" /\ libei' = "done"
          /\ UNCHANGED libeiRunning
       \/ /\ context = "up"
          /\ libei' \in {"loop", "done"}
          /\ libeiRunning' = TRUE
    /\ UNCHANGED <<main, signalled, keyboard, context, portal, portalRunning,
                   leave, nameOwned, eis, misused>>

LibeiLoops ==
    /\ main \notin Ended /\ libei = "loop"
    /\ libei' = IF libeiRunning THEN "use" ELSE "done"
    /\ UNCHANGED <<main, signalled, keyboard, context, libeiRunning, portal,
                   portalRunning, leave, nameOwned, eis, misused>>

LibeiWaits ==
    /\ main \notin Ended /\ libei = "use"
    /\ libei' \in {"loop", "done"}
    /\ Uses("libei", context)
    /\ UNCHANGED <<main, signalled, keyboard, context, libeiRunning, portal,
                   portalRunning, leave, nameOwned, eis>>

Libei == LibeiBegins \/ LibeiLoops \/ LibeiWaits

----------------------------------------------------------------------------
(* The D-Bus thread: Portal::run and the handlers. *)

PortalBegins ==
    /\ main \notin Ended /\ portal = "begin"
    /\ portal' = "loop"
    /\ portalRunning' = TRUE
    /\ UNCHANGED <<main, signalled, keyboard, context, libei, libeiRunning,
                   leave, nameOwned, eis, misused>>

\* sdbus (external) serves what is pending before it looks at its exit
\* descriptor: a Notify handler sends to the virtual devices.
PortalNotify ==
    /\ main \notin Ended /\ portal = "loop"
    /\ portal' = "use"
    /\ UNCHANGED <<main, signalled, keyboard, context, libei, libeiRunning,
                   portalRunning, leave, nameOwned, eis, misused>>

PortalSends ==
    /\ main \notin Ended /\ portal = "use"
    /\ portal' = "loop"
    /\ Uses("portal", keyboard)
    /\ UNCHANGED <<main, signalled, keyboard, context, libei, libeiRunning,
                   portalRunning, leave, nameOwned, eis>>

\* ConnectToEIS hands out a descriptor and detaches a thread.
ConnectToEIS(i) ==
    /\ main \notin Ended /\ portal = "loop" /\ eis[i] = "none"
    /\ eis' = [eis EXCEPT ![i] = "loop"]
    /\ UNCHANGED <<main, signalled, keyboard, context, libei, libeiRunning,
                   portal, portalRunning, leave, nameOwned, misused>>

PortalLeaves ==
    /\ main \notin Ended /\ portal = "loop" /\ leave
    /\ portal' = "done"
    /\ UNCHANGED <<main, signalled, keyboard, context, libei, libeiRunning,
                   portalRunning, leave, nameOwned, eis, misused>>

\* An error of the bus ends the event loop, with the process left as it is.
PortalFails ==
    /\ main \notin Ended /\ portal = "loop"
    /\ portal' = "done"
    /\ UNCHANGED <<main, signalled, keyboard, context, libei, libeiRunning,
                   portalRunning, leave, nameOwned, eis, misused>>

----------------------------------------------------------------------------
(* A thread of ConnectToEIS. *)

EisMoves(i, from, to) ==
    /\ main \notin Ended /\ eis[i] = from
    /\ eis' = [eis EXCEPT ![i] = to]
    /\ UNCHANGED <<main, signalled, keyboard, context, libei, libeiRunning,
                   portal, portalRunning, leave, nameOwned>>

\* It ends when Portal::running is false or when poll fails, whatever the flag
\* says; its client's disconnect or the close of the session ends it neither way.
EisEnds(i) == EisMoves(i, "loop", "done") /\ UNCHANGED misused

\* An event of its client, whatever became of Portal::running since the loop
\* looked at it; handled if the device's pointer is still set.
EisEvent(i) ==
    /\ keyboard = "up"
    /\ EisMoves(i, "loop", "use") /\ UNCHANGED misused

EisSends(i) == EisMoves(i, "use", "loop") /\ Uses("eis", keyboard)

----------------------------------------------------------------------------
Init ==
    /\ main = "initKeyboard"
    /\ signalled = FALSE
    /\ keyboard = "none"
    /\ context = "none"
    /\ libei = "none"
    /\ libeiRunning = FALSE
    /\ portal = "none"
    /\ portalRunning = FALSE
    /\ leave = FALSE
    /\ nameOwned = FALSE
    /\ eis = [i \in EisThreads |-> "none"]
    /\ misused = {}

Next ==
    \/ Main \/ Signal \/ Libei
    \/ PortalBegins \/ PortalNotify \/ PortalSends \/ PortalLeaves
    \/ PortalFails
    \/ \E i \in EisThreads :
           ConnectToEIS(i) \/ EisEnds(i) \/ EisEvent(i) \/ EisSends(i)

Spec == Init /\ [][Next]_vars

\* The scheduler runs every thread. The event loop is told to leave once and
\* keeps the mark until it looks; it serves the calls that wait first, so that
\* it looks at all takes clients that pause once in a while.
FairSpec ==
    /\ Spec /\ WF_vars(Main) /\ WF_vars(Libei)
    /\ WF_vars(PortalBegins \/ PortalSends) /\ SF_vars(PortalLeaves)

----------------------------------------------------------------------------
(* Properties. *)

\* The type invariant.
TypeOK ==
    /\ main \in MainSteps
    /\ signalled \in BOOLEAN /\ leave \in BOOLEAN /\ nameOwned \in BOOLEAN
    /\ libeiRunning \in BOOLEAN /\ portalRunning \in BOOLEAN
    /\ keyboard \in {"none", "up", "gone"} /\ context \in {"none", "up", "gone"}
    /\ libei \in ThreadSteps /\ portal \in ThreadSteps
    /\ eis \in [EisThreads -> ThreadSteps]
    /\ misused \subseteq {"libei", "portal", "eis"}

\* The threads main joins never use a device or a context it has destroyed:
\* the D-Bus thread never, the libei thread unless Portal::init failed.
JoinedThreadsAreSafe ==
    /\ "portal" \notin misused
    /\ "libei" \in misused => main \in {"failed", "abort"}

\* While the bus name is owned the devices behind it exist, from the first
\* call that can arrive to the last.
NameImpliesDevices == nameOwned => keyboard = "up" /\ context = "up"

\* A signal, from whatever moment on, ends the process with everything
\* destroyed, whichever threads are in the middle of a call, provided that the
\* libei thread has begun when main sees it.
ShutdownCompletes ==
    (signalled /\ main = "wait" /\ libei # "begin") ~> main \in Ended

\* Not kept by the code, the same without the proviso: a stop of LibEIHandler
\* that comes before its run is overwritten by run, and main's join never ends.
ShutdownAlwaysCompletes == signalled ~> main \in Ended

\* Not kept by the code, the same as JoinedThreadsAreSafe for the threads nobody
\* joins.
DetachedThreadsAreSafe == "eis" \notin misused

\* main's claim: when the portal cannot be initialised it returns 1.
NeverAborts == main # "abort"
=============================================================================
