--------------------------- MODULE PickerHandshake ---------------------------
(****************************************************************************)
(* The D-Bus session handlers of hyprcrd-portal (CreateSession, Start and   *)
(* the exported Session.Close), the handshake marker they share with        *)
(* hyprcrd-picker through the file system, and the picker script itself.    *)
(*                                                                          *)
(* Three parties run concurrently:                                          *)
(*   - the portal's event loop, which serves one call at a time and blocks  *)
(*     in synchronous calls to xdg-desktop-portal-hyprland (xdph);          *)
(*   - xdph, a single serial process that reads its calls in bus order and  *)
(*     stays blocked while a picker it launched is running;                 *)
(*   - the picker, a script of three observable steps.                      *)
(* The portal frontend (external) sends the calls of each CRD session, and  *)
(* other applications ask xdph for a selection of their own.                *)
(****************************************************************************)
EXTENDS Naturals, Sequences, FiniteSets

CONSTANTS
    Sessions,    \* session handles of Chrome Remote Desktop
    Apps,        \* other applications that ask xdph for one selection each
    MarkerTTL,   \* clock ticks after which a marker no longer counts
    RuntimeDir,  \* TRUE iff XDG_RUNTIME_DIR is set
    None         \* no session; no marker file

ASSUME HandshakeAssumption ==
    /\ Sessions \cap Apps = {}
    /\ None \notin Sessions
    /\ MarkerTTL \in Nat \ {0}
    /\ RuntimeDir \in BOOLEAN

VARIABLES
    phase,         \* the frontend's view of each CRD session
    exported,      \* sessions whose object the portal exports (session_objects)
    portal,        \* what the event loop is doing, and the reply it waits for
    marker,        \* session written in the marker file, or None
    age,           \* ticks since each session's CreateSession began
    xdphQ,         \* calls on their way to xdph, in bus order
    xdphSessions,  \* sessions xdph knows
    picker,        \* the running picker, if any, and who it selects for
    selection,     \* how each request for a selection was answered
    streams,       \* sessions whose Start reply carried streams
    marked,        \* history: sessions for which the marker was written
    disturbed,     \* history: those of them for which another may have removed it
    unsent         \* history: <<op, session>> calls that never reached the bus

vars == <<phase, exported, portal, marker, age, xdphQ, xdphSessions, picker,
          selection, streams, marked, disturbed, unsent>>

Requesters == Sessions \cup Apps
Phases == {"none", "creating", "created", "selecting", "selected", "refused",
           "starting", "active", "failed", "closing", "closed", "abandoned"}
PortalCalls == {"CreateSession", "Start", "Close"}
Calls == PortalCalls \cup {"SelectSources"}
Replies == {"none", "ok", "fail", "error"}
EventLoop == [pc : {"idle", "down"} \cup PortalCalls,
              sess : Sessions \cup {None}, reply : Replies]
Message == [op : Calls, who : Requesters]
Outcomes == {"none", "pending", "auto", "interactive", "refused"}

----------------------------------------------------------------------------
(* The marker file. *)

\* Faulty form of WrittenMarker: the file is gone when it cannot be written.
WrittenOrGone(s, ok) == IF RuntimeDir THEN IF ok THEN s ELSE None ELSE marker

\* What a writeSelectMarker(s) leaves in the file; ok is FALSE when mkdir or
\* open fails, which leaves the file as it was.
WrittenMarker(s, ok) == IF RuntimeDir /\ ok THEN s ELSE marker

\* Faulty form of the three clearings below: the file is left alone.
KeptMarker == marker

ClearedMarker == IF RuntimeDir THEN None ELSE marker

\* r removes the marker, whose ever it is by now.
Disturbs(r) == disturbed' = disturbed \cup (marked \ {r})

MarkerValid == RuntimeDir /\ marker # None /\ age[marker] < MarkerTTL

----------------------------------------------------------------------------
(* The portal. *)

Idle == [pc |-> "idle", sess |-> None, reply |-> "none"]

\* Faulty form of CallXdph: only Start is forwarded to xdph.
ForwardOnlyStart(op, s, sent) ==
    /\ portal' = [pc |-> op, sess |-> s, reply |-> "error"]
    /\ xdphQ' = IF op = "Start" THEN Append(xdphQ, [op |-> op, who |-> s])
                               ELSE xdphQ
    /\ unsent' = unsent

\* Faulty form of CallXdph: a Close is answered without a call.
CloseNotForwarded(op, s, sent) ==
    /\ portal' = [pc |-> op, sess |-> s,
                  reply |-> IF sent /\ op # "Close" THEN "none" ELSE "error"]
    /\ xdphQ' = IF sent /\ op # "Close" THEN Append(xdphQ, [op |-> op, who |-> s])
                                       ELSE xdphQ
    /\ unsent' = IF sent THEN unsent ELSE unsent \cup {<<op, s>>}

\* The event loop enters the handler of op and makes its synchronous call to
\* xdph: it is on the bus, or it failed at once (xdph has no owner there).
CallXdph(op, s, sent) ==
    /\ portal' = [pc |-> op, sess |-> s,
                  reply |-> IF sent THEN "none" ELSE "error"]
    /\ xdphQ' = IF sent THEN Append(xdphQ, [op |-> op, who |-> s]) ELSE xdphQ
    /\ unsent' = IF sent THEN unsent ELSE unsent \cup {<<op, s>>}

\* Portal::CreateSession up to its call to xdph: the session object is
\* exported (a failure is only logged), then the marker is written.
PortalCreateSession(s) ==
    /\ portal.pc = "idle" /\ phase[s] = "none"
    /\ phase' = [phase EXCEPT ![s] = "creating"]
    /\ age' = [age EXCEPT ![s] = 0]
    /\ \E exportOk \in BOOLEAN :
          exported' = IF exportOk THEN exported \cup {s} ELSE exported
    /\ \E writeOk \in BOOLEAN :
          /\ marker' = WrittenMarker(s, writeOk)
          /\ marked' = IF RuntimeDir /\ writeOk THEN marked \cup {s} ELSE marked
    /\ \E sent \in BOOLEAN : CallXdph("CreateSession", s, sent)
    /\ UNCHANGED <<xdphSessions, picker, selection, streams, disturbed>>

\* Its reply to the frontend is success, whatever xdph answered.
PortalCreateReturn(s) ==
    /\ portal.pc = "CreateSession" /\ portal.sess = s /\ portal.reply # "none"
    /\ portal' = Idle
    /\ phase' = [phase EXCEPT ![s] = "created"]
    /\ UNCHANGED <<exported, marker, age, xdphQ, xdphSessions, picker,
                   selection, streams, marked, disturbed, unsent>>

PortalStart(s) ==
    /\ portal.pc = "idle" /\ phase[s] \in {"created", "selected"}
    /\ phase' = [phase EXCEPT ![s] = "starting"]
    /\ \E sent \in BOOLEAN : CallXdph("Start", s, sent)
    /\ UNCHANGED <<exported, marker, age, xdphSessions, picker, selection,
                   streams, marked, disturbed>>

\* Faulty form of StartPhase: the exception of the call escapes the handler.
StartPhaseRaises(reply) == IF reply = "error" THEN "raised" ELSE "active"

\* What Portal::Start tells the frontend: xdph's response code, or success
\* when the call itself raised an error.
StartPhase(reply) == IF reply = "fail" THEN "failed" ELSE "active"

MarkerAfterStart == ClearedMarker

PortalStartReturn(s) ==
    /\ portal.pc = "Start" /\ portal.sess = s /\ portal.reply # "none"
    /\ portal' = Idle
    /\ marker' = MarkerAfterStart /\ Disturbs(s)
    /\ phase' = [phase EXCEPT ![s] = StartPhase(portal.reply)]
    /\ streams' = IF portal.reply = "ok" THEN streams \cup {s} ELSE streams
    /\ UNCHANGED <<exported, age, xdphQ, xdphSessions, picker, selection,
                   marked, unsent>>

\* Whether the Close handler's call to xdph can be made: any outcome.
CloseSends == BOOLEAN

\* The frontend closes a session: the Close handler of the exported object.
PortalClose(s) ==
    /\ portal.pc = "idle" /\ s \in exported
    /\ phase[s] \in {"created", "selecting", "selected", "refused", "active",
                     "failed"}
    /\ phase' = [phase EXCEPT ![s] = "closing"]
    /\ \E sent \in CloseSends : CallXdph("Close", s, sent)
    /\ UNCHANGED <<exported, marker, age, xdphSessions, picker, selection,
                   streams, marked, disturbed>>

MarkerAfterClose == ClearedMarker

PortalCloseReturn(s) ==
    /\ portal.pc = "Close" /\ portal.sess = s /\ portal.reply # "none"
    /\ portal' = Idle
    /\ marker' = MarkerAfterClose /\ Disturbs(s)
    /\ exported' = exported \ {s}
    /\ phase' = [phase EXCEPT ![s] = "closed"]
    /\ UNCHANGED <<age, xdphQ, xdphSessions, picker, selection, streams,
                   marked, unsent>>

\* Faulty form of PortalTimeout: only CreateSession has a time limit.
TimeoutCreateOnly ==
    /\ portal.pc = "CreateSession" /\ portal.reply = "none"
    /\ portal' = [portal EXCEPT !.reply = "error"]
    /\ UNCHANGED <<phase, exported, marker, age, xdphQ, xdphSessions, picker,
                   selection, streams, marked, disturbed, unsent>>

\* A synchronous sdbus call gives up after its timeout and throws.
PortalTimeout ==
    /\ portal.pc \in PortalCalls /\ portal.reply = "none"
    /\ portal' = [portal EXCEPT !.reply = "error"]
    /\ UNCHANGED <<phase, exported, marker, age, xdphQ, xdphSessions, picker,
                   selection, streams, marked, disturbed, unsent>>

\* The portal process ends, in or between calls: its exported objects go with
\* it, the marker file stays. The frontend drops a session whose call is lost.
PortalExit ==
    /\ portal.pc # "down"
    /\ portal' = [Idle EXCEPT !.pc = "down"]
    /\ exported' = {}
    /\ phase' = [s \in Sessions |-> IF s = portal.sess THEN "abandoned"
                                                       ELSE phase[s]]
    /\ UNCHANGED <<marker, age, xdphQ, xdphSessions, picker, selection,
                   streams, marked, disturbed, unsent>>

\* D-Bus activation starts a new instance, with an empty session_objects.
PortalActivate ==
    /\ portal.pc = "down"
    /\ portal' = Idle
    /\ UNCHANGED <<phase, exported, marker, age, xdphQ, xdphSessions, picker,
                   selection, streams, marked, disturbed, unsent>>

----------------------------------------------------------------------------
(* The frontend and other applications (external). *)

FrontendSelectSources(s) ==
    /\ phase[s] = "created"
    /\ phase' = [phase EXCEPT ![s] = "selecting"]
    /\ xdphQ' = Append(xdphQ, [op |-> "SelectSources", who |-> s])
    /\ UNCHANGED <<exported, portal, marker, age, xdphSessions, picker,
                   selection, streams, marked, disturbed, unsent>>

AppSelectSources(a) ==
    /\ selection[a] = "none"
    /\ selection' = [selection EXCEPT ![a] = "pending"]
    /\ xdphQ' = Append(xdphQ, [op |-> "SelectSources", who |-> a])
    /\ UNCHANGED <<phase, exported, portal, marker, age, xdphSessions, picker,
                   streams, marked, disturbed, unsent>>

\* Close of a session the portal does not export answers with an error, and
\* the frontend forgets the session.
FrontendDropsSession(s) ==
    /\ portal.pc = "idle" /\ s \notin exported
    /\ phase[s] \in {"created", "selecting", "selected", "refused", "active",
                     "failed"}
    /\ phase' = [phase EXCEPT ![s] = "abandoned"]
    /\ UNCHANGED <<exported, portal, marker, age, xdphQ, xdphSessions, picker,
                   selection, streams, marked, disturbed, unsent>>

Tick ==
    /\ \E s \in Sessions : age[s] < MarkerTTL /\ phase[s] # "none"
    /\ age' = [s \in Sessions |->
                 IF age[s] < MarkerTTL /\ phase[s] # "none" THEN age[s] + 1
                                                            ELSE age[s]]
    /\ UNCHANGED <<phase, exported, portal, marker, xdphQ, xdphSessions, picker,
                   selection, streams, marked, disturbed, unsent>>

----------------------------------------------------------------------------
(* xdph (external): takes the head of its queue unless a picker runs. *)

NoPicker == [pc |-> "idle", who |-> None]

XdphTakes(op) ==
    /\ picker.pc = "idle" /\ xdphQ # <<>> /\ Head(xdphQ).op = op
    /\ xdphQ' = Tail(xdphQ)

\* The portal gets this answer unless it has stopped waiting for it.
XdphReplies(op, s, reply) ==
    portal' = IF portal = [pc |-> op, sess |-> s, reply |-> "none"]
                THEN [portal EXCEPT !.reply = reply] ELSE portal

XdphCreateSession ==
    /\ XdphTakes("CreateSession")
    /\ LET s == Head(xdphQ).who IN
          /\ xdphSessions' = xdphSessions \cup {s}
          /\ XdphReplies("CreateSession", s, "ok")
    /\ UNCHANGED <<phase, exported, marker, age, picker, selection, streams,
                   marked, disturbed, unsent>>

XdphSelectSources ==
    /\ XdphTakes("SelectSources")
    /\ LET r == Head(xdphQ).who IN
          \/ /\ r \in Apps \cup xdphSessions
             /\ picker' = [pc |-> "check", who |-> r]
             /\ UNCHANGED <<phase, selection>>
          \/ /\ r \in Sessions \ xdphSessions
             /\ selection' = [selection EXCEPT ![r] = "refused"]
             /\ phase' = [phase EXCEPT ![r] = IF @ = "selecting" THEN "refused"
                                                                 ELSE @]
             /\ UNCHANGED picker
    /\ UNCHANGED <<exported, portal, marker, age, xdphSessions, streams,
                   marked, disturbed, unsent>>

XdphStart ==
    /\ XdphTakes("Start")
    /\ LET s == Head(xdphQ).who IN
          XdphReplies("Start", s,
             IF s \notin xdphSessions THEN "error"
             ELSE IF selection[s] \in {"auto", "interactive"} THEN "ok"
             ELSE "fail")
    /\ UNCHANGED <<phase, exported, marker, age, xdphSessions, picker,
                   selection, streams, marked, disturbed, unsent>>

XdphClose ==
    /\ XdphTakes("Close")
    /\ LET s == Head(xdphQ).who IN
          /\ xdphSessions' = xdphSessions \ {s}
          /\ XdphReplies("Close", s,
                IF s \in xdphSessions THEN "ok" ELSE "error")
    /\ UNCHANGED <<phase, exported, marker, age, picker, selection, streams,
                   marked, disturbed, unsent>>

----------------------------------------------------------------------------
(* hyprcrd-picker. *)

PickerStep(pc, next) ==
    /\ picker.pc = pc
    /\ picker' = next

\* The script ends with an outcome, which xdph hands back to the requester.
PickerEnds(pc, outcome) ==
    /\ PickerStep(pc, NoPicker)
    /\ selection' = [selection EXCEPT ![picker.who] = outcome]
    /\ phase' = [s \in Sessions |->
                   IF s = picker.who /\ phase[s] = "selecting"
                     THEN IF outcome = "refused" THEN "refused" ELSE "selected"
                     ELSE phase[s]]

\* The test of the marker: present, owned, and less than 30 seconds old.
PickerCheck ==
    /\ PickerStep("check", [picker EXCEPT !.pc = IF MarkerValid THEN "consume"
                                                                ELSE "share"])
    /\ UNCHANGED <<phase, exported, portal, marker, age, xdphQ, xdphSessions,
                   selection, streams, marked, disturbed, unsent>>

MarkerAfterUse == None

\* rm -f removes whatever the file is by now; the answer is the monitor.
PickerConsume ==
    /\ PickerEnds("consume", "auto")
    /\ marker' = MarkerAfterUse /\ Disturbs(picker.who)
    /\ UNCHANGED <<exported, portal, age, xdphQ, xdphSessions, streams, marked,
                   unsent>>

\* hyprland-share-picker: the user picks or cancels; without it, exit 1.
PickerShare ==
    /\ \E outcome \in {"interactive", "refused"} : PickerEnds("share", outcome)
    /\ UNCHANGED <<exported, portal, marker, age, xdphQ, xdphSessions, streams,
                   marked, disturbed, unsent>>

----------------------------------------------------------------------------
Init ==
    /\ phase = [s \in Sessions |-> "none"]
    /\ exported = {}
    /\ portal = Idle
    /\ marker = None
    /\ age = [s \in Sessions |-> 0]
    /\ xdphQ = <<>>
    /\ xdphSessions = {}
    /\ picker = NoPicker
    /\ selection = [r \in Requesters |-> "none"]
    /\ streams = {}
    /\ marked = {} /\ disturbed = {}
    /\ unsent = {}

PortalReturns ==
    \E s \in Sessions : \/ PortalCreateReturn(s)
                        \/ PortalStartReturn(s)
                        \/ PortalCloseReturn(s)

Next ==
    \/ \E s \in Sessions : \/ PortalCreateSession(s)
                           \/ PortalStart(s)
                           \/ PortalClose(s)
                           \/ FrontendSelectSources(s)
                           \/ FrontendDropsSession(s)
    \/ \E a \in Apps : AppSelectSources(a)
    \/ PortalReturns \/ PortalTimeout \/ PortalExit \/ PortalActivate
    \/ XdphCreateSession \/ XdphSelectSources \/ XdphStart \/ XdphClose
    \/ PickerCheck \/ PickerConsume \/ PickerShare
    \/ Tick

Spec == Init /\ [][Next]_vars

\* A blocked call always times out, and the event loop goes on after a call.
FairSpec == Spec /\ WF_vars(PortalTimeout) /\ WF_vars(PortalReturns)

----------------------------------------------------------------------------
(* Properties. *)

\* The type invariant.
TypeOK ==
    /\ phase \in [Sessions -> Phases]
    /\ exported \subseteq Sessions
    /\ portal \in EventLoop
    /\ marker \in Sessions \cup {None}
    /\ age \in [Sessions -> 0..MarkerTTL]
    /\ xdphQ \in Seq(Message)
    /\ xdphSessions \subseteq Requesters
    /\ picker \in [pc : {"idle", "check", "consume", "share"},
                   who : Requesters \cup {None}]
    /\ selection \in [Requesters -> Outcomes]
    /\ streams \subseteq Sessions
    /\ marked \subseteq Sessions /\ disturbed \subseteq Sessions
    /\ unsent \subseteq (Calls \X Sessions)

\* The marker file does not outlive the handshake of the session that wrote
\* it: once that session's Start returned (success or failure) or it was
\* closed, the file does not name it, in whatever order the calls of the
\* sessions, the timeouts and the pickers came.
MarkerNotOutlived ==
    marker # None => phase[marker] \notin {"none", "active", "failed", "closed"}

\* When xdph reaches a SelectSources of a CRD session, it knows the session:
\* the paired CreateSession comes first even if the portal gave up waiting
\* for it, unless it could not be sent at all.
SelectSourcesFindsPairedSession ==
    \A s \in Sessions :
        /\ xdphQ # <<>> /\ Head(xdphQ) = [op |-> "SelectSources", who |-> s]
        /\ <<"CreateSession", s>> \notin unsent
        => s \in xdphSessions

\* A session the portal has closed does not stay behind in xdph: if xdph
\* still knows it, the Close is in its queue, or could not be sent.
ClosedReachesXdph ==
    \A s \in Sessions :
        phase[s] = "closed" /\ s \in xdphSessions
        => \/ \E i \in 1..Len(xdphQ) : xdphQ[i] = [op |-> "Close", who |-> s]
           \/ <<"Close", s>> \in unsent

\* Requests whose picker is about to consume a marker, or has.
Unattended == {r \in Requesters : \/ selection[r] = "auto"
                                  \/ picker.pc = "consume" /\ picker.who = r}

\* Whether the next picker to look will find a marker that counts.
Permit == MarkerValid /\ picker.pc # "consume"

Grant == INSTANCE SelectionGrant
             WITH issued <- marked, permit <- Permit, served <- Unattended

\* The marker file with its age, the portal's clearing and the picker's test
\* and removal implement the grant: whatever is written or removed between
\* the test and the removal, a screen is shared unattended against a permit
\* that goes with it.
SharesAgainstPermit == Grant!Spec

\* The picker leaves a session that waits for its selection to the user.
TurnedAway(s) ==
    /\ picker.who = s /\ picker.pc = "check" /\ picker'.pc = "share"
    /\ phase[s] = "selecting"

\* A CRD session that waits for its selection, and whose marker was written
\* less than MarkerTTL ago, is selected for without asking, whatever came in
\* between of other sessions' markers and of calls that timed out, were late or
\* lost with the portal; unless another requester's picker used the marker, or
\* another session's Start or Close removed it, after it was written.
UnattendedUnlessDisturbed ==
    [][\A s \in marked \ disturbed : TurnedAway(s) => age[s] >= MarkerTTL]_vars

\* As many requests as markers were written are served without asking, at most.
\* (It does not say whose: OnlyPairedUnattended.)
OneSelectionPerMarker == Cardinality(Unattended) <= Cardinality(marked)

\* Every call the portal's event loop takes is answered, or the portal ends,
\* even when xdph sits behind an interactive picker that nobody uses.
PortalAnswers ==
    \A op \in PortalCalls : (portal.pc = op) ~> (portal.pc # op)

\* Not kept by the code, its own claim that an active Start carries the streams
\* of the paired ScreenCast session: a call that raises ends in success too.
StartSuccessHasStreams ==
    \A s \in Sessions : phase[s] = "active" => s \in streams

\* Not kept by the code, the documents' "solely for its own paired ScreenCast
\* session": the marker does not reach the picker as anybody's, so whoever asks
\* first while it counts is served without asking.
OnlyPairedUnattended == \A a \in Apps : selection[a] # "auto"

\* Not kept by the code, UnattendedUnlessDisturbed without the exception.
UnattendedAccess ==
    [][\A s \in marked : TurnedAway(s) => age[s] >= MarkerTTL]_vars
==============================================================================
