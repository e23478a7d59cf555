----------------------------- MODULE HostService -----------------------------
(****************************************************************************)
(* Starting and stopping hyprCRD: the hyprcrd command (cmd_start, cmd_stop)  *)
(* of several shells and of the systemd unit, which may be cut off at any    *)
(* step, the PID file they share, the daemon processes they spawn            *)
(* (HyprCRDDaemon.run and stop) and the two children of a daemon, the portal *)
(* and the host. A PID is the process itself: the numbers are not reused.    *)
(****************************************************************************)
EXTENDS Naturals, FiniteSets

CONSTANTS
    Shells,       \* terminals in which hyprcrd is run
    Units,        \* systemd units: they only run hyprcrd start -f
    Daemons,      \* identities for the daemon processes (a bound)
    Outside,      \* daemons whose HOST_BINARY is not below hyprcrd's BASE_DIR
    Bus,          \* the portal D-Bus activation starts, no daemon's child
    None,         \* no process
    Foreground    \* whether a shell may use start -f

Users == Shells \cup Units
Portals == Daemons \cup {Bus}

ASSUME ServiceAssumption ==
    /\ Shells \cap Units = {}
    /\ Bus \notin Daemons /\ None \notin Portals
    /\ Outside \subseteq Daemons
    /\ Foreground \in BOOLEAN

VARIABLES
    pidFile,     \* the daemon PID_FILE names, None if there is no file
    user,        \* the next step of each user's command
    seen,        \* the daemon that command works on
    daemon,      \* the next step of each daemon's main thread, or its end
    sigterm,     \* daemons with a SIGTERM or SIGINT not yet handled
    host,        \* the host each daemon launched
    hostProc,    \* daemons whose self.host_proc is set
    portal,      \* the portal each daemon launched, and the bus's
    portalProc,  \* daemons whose self.portal_proc is set
    name,        \* the portal that owns the D-Bus name
    lost,        \* history: daemons started that PID_FILE was not written for
    stopped      \* history: hyprcrd stop has returned, and no command came since

commands == <<pidFile, user, seen, lost, stopped>>
children == <<host, hostProc, portal, portalProc, name>>
vars == <<commands, daemon, sigterm, children>>

\* A child gets SIGTERM and may take its time: "term".
ChildStates == {"none", "up", "term", "dead"}
Alive(child) == child \in {"up", "term"}
\* What SIGTERM makes of a child.
Termed(child) == IF child = "up" THEN "term" ELSE child

Ended == {"exit0", "exit1", "killed"}
Stopping == {"stopHost", "waitHost", "stopPortal", "waitPortal"}
Starting == {"portal", "portalForked", "portalWait", "host", "hostForked"}
DaemonSteps == {"none", "boot", "watch"} \cup Starting \cup Stopping \cup Ended
UserSteps == {"idle", "spawn", "writePid", "foreground", "interrupted", "grace",
              "unlink", "sweep"}
Running(d) == daemon[d] \notin {"none"} \cup Ended

----------------------------------------------------------------------------
(* hyprcrd start. *)

UserGoes(u, step) == user' = [user EXCEPT ![u] = step]

AlreadyRunning == pidFile # None /\ Running(pidFile)

CmdStart(u) ==
    /\ user[u] = "idle"
    /\ UserGoes(u, IF AlreadyRunning THEN "idle" ELSE "spawn")
    /\ stopped' = FALSE
    /\ UNCHANGED <<pidFile, seen, lost, daemon, sigterm, children>>

\* In the background the PID file is written after the process is there; in
\* the foreground it is not written at all.
SpawnDaemon(u) ==
    /\ user[u] = "spawn"
    /\ \E d \in Daemons :
          /\ daemon[d] = "none"
          /\ daemon' = [daemon EXCEPT ![d] = "boot"]
          /\ seen' = [seen EXCEPT ![u] = d]
          /\ \/ u \in Shells /\ UserGoes(u, "writePid") /\ lost' = lost
             \/ /\ u \in Units \/ Foreground
                /\ UserGoes(u, "foreground") /\ lost' = lost \cup {d}
    /\ UNCHANGED <<pidFile, stopped, sigterm, children>>

WritePid(u) ==
    /\ user[u] = "writePid"
    /\ pidFile' = seen[u]
    /\ UserGoes(u, "idle")
    /\ UNCHANGED <<seen, lost, stopped, daemon, sigterm, children>>

\* A command ends before it is through, interrupted or by an error of its own.
\* One that had spawned its daemon leaves it unrecorded, and PID_FILE as it was
\* or cut down to nothing: open for writing truncates it.
CommandCut(u) ==
    /\ u \in Shells /\ user[u] # "idle"
    /\ UserGoes(u, "idle")
    /\ IF user[u] = "writePid"
       THEN lost' = lost \cup {seen[u]} /\ pidFile' \in {pidFile, None}
       ELSE UNCHANGED <<lost, pidFile>>
    /\ UNCHANGED <<seen, stopped, daemon, sigterm, children>>

\* A unit that ends by itself takes its control group along, and is started
\* again if the command failed: Restart=on-failure. The command does not look
\* at the return code of the daemon it ran.
ExitCode(d) == 0

ForegroundEnds(u) ==
    /\ user[u] = "foreground" /\ daemon[seen[u]] \in Ended
    /\ IF u \in Units
       THEN /\ UserGoes(u, IF ExitCode(seen[u]) = 0 THEN "idle" ELSE "spawn")
            /\ host' = [host EXCEPT ![seen[u]] = Termed(@)]
            /\ portal' = [portal EXCEPT ![seen[u]] = Termed(@)]
       ELSE UserGoes(u, "idle") /\ UNCHANGED <<host, portal>>
    /\ UNCHANGED <<pidFile, seen, lost, stopped, daemon, sigterm, hostProc,
                   portalProc, name>>

----------------------------------------------------------------------------
(* hyprcrd stop, and systemctl stop. *)

CmdStop(u) ==
    /\ u \in Shells /\ user[u] = "idle"
    /\ IF AlreadyRunning
       THEN /\ sigterm' = sigterm \cup {pidFile}
            /\ seen' = [seen EXCEPT ![u] = pidFile]
            /\ UserGoes(u, "grace")
       ELSE /\ UserGoes(u, IF pidFile # None THEN "unlink" ELSE "sweep")
            /\ UNCHANGED <<sigterm, seen>>
    /\ stopped' = FALSE
    /\ UNCHANGED <<pidFile, lost, daemon, children>>

\* Faulty form of AfterGrace: the daemon is not killed.
NoSigkill(d) == daemon[d]

AfterGrace(d) == IF Running(d) THEN "killed" ELSE daemon[d]

\* One second later, however far the daemon's own stop has come; and when
\* start -f was interrupted, after the quarter second subprocess.run gives it.
GraceOver(u) ==
    /\ user[u] \in {"grace", "interrupted"}
    /\ daemon' = [daemon EXCEPT ![seen[u]] = AfterGrace(seen[u])]
    /\ UserGoes(u, IF user[u] = "grace" THEN "unlink" ELSE "idle")
    /\ UNCHANGED <<pidFile, seen, lost, stopped, sigterm, children>>

UnlinkPid(u) ==
    /\ user[u] = "unlink"
    /\ pidFile' = None
    /\ UserGoes(u, "sweep")
    /\ UNCHANGED <<seen, lost, stopped, daemon, sigterm, children>>

\* Faulty form of HostFound: no host is looked for.
NoHostFound(d) == FALSE

\* 'A or B and C': BASE_DIR must be in the command line of a host, not in that
\* of a portal.
HostFound(d) == d \notin Outside

\* Every portal gets SIGTERM and every host found, whoever launched it.
Sweep(u) ==
    /\ user[u] = "sweep"
    /\ host' = [d \in Daemons |-> IF HostFound(d) THEN Termed(host[d]) ELSE host[d]]
    /\ portal' = [p \in Portals |-> Termed(portal[p])]
    /\ UserGoes(u, "idle")
    /\ stopped' = TRUE
    /\ UNCHANGED <<pidFile, seen, lost, daemon, sigterm, hostProc, portalProc, name>>

\* systemctl stop sends SIGTERM to the whole control group, and Ctrl-C in the
\* terminal of start -f SIGINT to the whole process group.
StopForeground(u) ==
    /\ user[u] = "foreground"
    /\ UserGoes(u, IF u \in Units THEN "idle" ELSE "interrupted")
    /\ sigterm' = sigterm \cup {seen[u]}
    /\ host' = [host EXCEPT ![seen[u]] = Termed(@)]
    /\ portal' = [portal EXCEPT ![seen[u]] = Termed(@)]
    /\ UNCHANGED <<pidFile, seen, lost, stopped, daemon, hostProc, portalProc, name>>

----------------------------------------------------------------------------
(* The daemon's main thread. *)

DaemonGoes(d, from, to) ==
    daemon[d] = from /\ daemon' = [daemon EXCEPT ![d] = to]

\* The signal handlers are installed and the host configuration is loaded;
\* without one the daemon fails.
Boot(d) ==
    /\ DaemonGoes(d, "boot", "portal") \/ DaemonGoes(d, "boot", "exit1")
    /\ UNCHANGED <<commands, sigterm, children>>

\* start_portal_if_needed: nothing to do when the name is owned.
PortalActive(d) ==
    /\ name # None
    /\ DaemonGoes(d, "portal", "host")
    /\ UNCHANGED <<commands, sigterm, children>>

\* Popen returns after the process is there; only then portal_proc is set.
ForkPortal(d) ==
    /\ name = None
    /\ DaemonGoes(d, "portal", "portalForked")
    /\ portal' = [portal EXCEPT ![d] = "up"]
    /\ UNCHANGED <<commands, sigterm, host, hostProc, portalProc, name>>

RecordPortal(d) ==
    /\ DaemonGoes(d, "portalForked", "portalWait")
    /\ portalProc' = portalProc \cup {d}
    /\ UNCHANGED <<commands, sigterm, host, hostProc, portal, name>>

\* After half a second the daemon goes on whether the portal exited or not.
PortalWaited(d) ==
    /\ DaemonGoes(d, "portalWait", "host")
    /\ UNCHANGED <<commands, sigterm, children>>

\* Popen of a binary that is not there raises, and run has no handler for it
\* before its supervision loop.
PopenFails(d) ==
    /\ \/ DaemonGoes(d, "portal", "exit1") /\ name = None
       \/ DaemonGoes(d, "host", "exit1")
    /\ UNCHANGED <<commands, sigterm, children>>

ForkHost(d) ==
    /\ DaemonGoes(d, "host", "hostForked")
    /\ host' = [host EXCEPT ![d] = "up"]
    /\ UNCHANGED <<commands, sigterm, hostProc, portal, portalProc, name>>

RecordHost(d) ==
    /\ DaemonGoes(d, "hostForked", "watch")
    /\ hostProc' = hostProc \cup {d}
    /\ UNCHANGED <<commands, sigterm, host, portal, portalProc, name>>

\* The supervision loop sees that the host exited, and stops.
Watch(d) ==
    /\ host[d] = "dead"
    /\ DaemonGoes(d, "watch", "stopHost")
    /\ UNCHANGED <<commands, sigterm, children>>

\* _on_shutdown, between any two steps, the steps of an earlier stop included.
\* Until the handlers are installed SIGTERM ends the process. (When the loop is
\* interrupted its finally runs stop once more, which finds both children gone.)
HandleSigterm(d) ==
    /\ d \in sigterm /\ Running(d)
    /\ sigterm' = sigterm \ {d}
    /\ daemon' = [daemon EXCEPT ![d] =
                     IF @ = "boot" THEN "killed" ELSE "stopHost"]
    /\ UNCHANGED <<commands, children>>

\* stop: terminate a child that is recorded and running, then wait.
StopHost(d) ==
    /\ IF d \in hostProc /\ Alive(host[d])
       THEN /\ DaemonGoes(d, "stopHost", "waitHost")
            /\ host' = [host EXCEPT ![d] = "term"]
       ELSE DaemonGoes(d, "stopHost", "stopPortal") /\ UNCHANGED host
    /\ UNCHANGED <<commands, sigterm, hostProc, portal, portalProc, name>>

\* Faulty form of WaitOver: wait without the timeout.
WaitForExit(child) == child = "dead"

\* Faulty forms of AfterWait: the child is not killed; it is entered
\* as one that returned.
WaitOnly(child) == child
Returned(child) == "returned"

WaitOver(child) == TRUE
AfterWait(child) == "dead"

\* The child ended within the timeout, or is killed.
WaitHost(d) ==
    /\ WaitOver(host[d])
    /\ DaemonGoes(d, "waitHost", "stopPortal")
    /\ host' = [host EXCEPT ![d] = AfterWait(@)]
    /\ UNCHANGED <<commands, sigterm, hostProc, portal, portalProc, name>>

StopPortal(d) ==
    /\ IF d \in portalProc /\ Alive(portal[d])
       THEN /\ DaemonGoes(d, "stopPortal", "waitPortal")
            /\ portal' = [portal EXCEPT ![d] = "term"]
       ELSE DaemonGoes(d, "stopPortal", "exit0") /\ UNCHANGED portal
    /\ UNCHANGED <<commands, sigterm, host, hostProc, portalProc, name>>

Released(p) == IF name = p THEN None ELSE name

WaitPortal(d) ==
    /\ WaitOver(portal[d])
    /\ DaemonGoes(d, "waitPortal", "exit0")
    /\ portal' = [portal EXCEPT ![d] = AfterWait(@)]
    /\ name' = Released(d)
    /\ UNCHANGED <<commands, sigterm, host, hostProc, portalProc>>

----------------------------------------------------------------------------
(* The children. *)

\* A portal takes the bus name, or fails and exits.
PortalClaims(p) ==
    /\ portal[p] = "up" /\ name # p
    /\ IF name = None THEN name' = p /\ UNCHANGED portal
       ELSE portal' = [portal EXCEPT ![p] = "dead"] /\ UNCHANGED name
    /\ UNCHANGED <<commands, daemon, sigterm, host, hostProc, portalProc>>

PortalExits(p) ==
    /\ Alive(portal[p])
    /\ portal' = [portal EXCEPT ![p] = "dead"]
    /\ name' = Released(p)
    /\ UNCHANGED <<commands, daemon, sigterm, host, hostProc, portalProc>>

\* D-Bus starts a portal when somebody calls the name and nobody owns it.
BusActivates ==
    /\ name = None /\ ~Alive(portal[Bus])
    /\ portal' = [portal EXCEPT ![Bus] = "up"]
    /\ UNCHANGED <<commands, daemon, sigterm, host, hostProc, portalProc, name>>

HostExits(d) ==
    /\ Alive(host[d])
    /\ host' = [host EXCEPT ![d] = "dead"]
    /\ UNCHANGED <<commands, daemon, sigterm, hostProc, portal, portalProc, name>>

----------------------------------------------------------------------------
Init ==
    /\ pidFile = None
    /\ user = [u \in Users |-> "idle"]
    /\ seen = [u \in Users |-> None]
    /\ daemon = [d \in Daemons |-> "none"]
    /\ sigterm = {}
    /\ host = [d \in Daemons |-> "none"] /\ hostProc = {}
    /\ portal = [p \in Portals |-> "none"] /\ portalProc = {}
    /\ name = None
    /\ lost = {} /\ stopped = FALSE

\* The rest of a command that has begun.
CommandGoesOn(u) ==
    \/ SpawnDaemon(u) \/ WritePid(u) \/ ForegroundEnds(u)
    \/ GraceOver(u) \/ UnlinkPid(u) \/ Sweep(u)

\* The daemon's own steps.
DaemonGoesOn(d) ==
    \/ Boot(d) \/ PortalActive(d) \/ ForkPortal(d) \/ RecordPortal(d)
    \/ PortalWaited(d) \/ ForkHost(d) \/ RecordHost(d) \/ Watch(d)
    \/ StopHost(d) \/ WaitHost(d) \/ StopPortal(d) \/ WaitPortal(d)

Next ==
    \/ \E u \in Users : CmdStart(u) \/ CmdStop(u) \/ StopForeground(u)
                        \/ CommandCut(u) \/ CommandGoesOn(u)
    \/ \E d \in Daemons : DaemonGoesOn(d) \/ HandleSigterm(d) \/ PopenFails(d)
                          \/ HostExits(d)
    \/ \E p \in Portals : PortalClaims(p) \/ PortalExits(p)
    \/ BusActivates

Spec == Init /\ [][Next]_vars

\* The shells take turns: none of them begins a start or a stop while another
\* one's is under way. A start -f that waits for its daemon holds nobody up, nor
\* does the unit.
Busy == {"spawn", "writePid", "grace", "unlink", "sweep"}
TakeTurns == \A u, v \in Shells : user[u] \in Busy /\ user[v] \in Busy => u = v

TurnSpec == Init /\ [][Next /\ TakeTurns']_vars

\* A process that can go on does, and a signal is handled: Python runs a
\* handler between two bytecodes and out of every blocking call. Nothing is
\* assumed of the host or of the portal, which may ignore a SIGTERM, and of
\* those who run commands only that they do not cut off each hyprcrd stop, or
\* the daemon would be interrupted in its own stop for ever.
FairSpec ==
    /\ Spec
    /\ \A u \in Users : WF_vars(CommandGoesOn(u)) /\ SF_vars(GraceOver(u))
    /\ \A d \in Daemons : WF_vars(DaemonGoesOn(d)) /\ WF_vars(HandleSigterm(d))

----------------------------------------------------------------------------
(* Properties. *)

TypeOK ==
    /\ pidFile \in Daemons \cup {None}
    /\ user \in [Users -> UserSteps]
    /\ seen \in [Users -> Daemons \cup {None}]
    /\ daemon \in [Daemons -> DaemonSteps]
    /\ sigterm \subseteq Daemons
    /\ host \in [Daemons -> ChildStates] /\ hostProc \subseteq Daemons
    /\ portal \in [Portals -> ChildStates] /\ portalProc \subseteq Daemons
    /\ name \in Portals \cup {None}
    /\ lost \subseteq Daemons /\ stopped \in BOOLEAN

\* A start while a daemon runs does not lead to a second one, which would run a
\* host under the same host ID, whatever commands came before and were cut off
\* on their way: two daemons run only if one of them never got into PID_FILE.
OneDaemon ==
    \A d, e \in Daemons \ lost : Running(d) /\ Running(e) => d = e

\* Not kept by the code, the same without the exception: start -f and the unit
\* write no PID_FILE, and a start may be cut off before it does.
OneDaemonAtAll == \A d, e \in Daemons : Running(d) /\ Running(e) => d = e

\* "hyprCRD host daemon stopped cleanly": no child the daemon had recorded
\* outlives it when it leaves through stop, even one that ignores SIGTERM and
\* even when stop was entered a second time from the signal handler.
RecordedChildrenEnd ==
    \A d \in Daemons : daemon[d] = "exit0" =>
        /\ d \in hostProc => ~Alive(host[d])
        /\ d \in portalProc => ~Alive(portal[d])

\* Not kept by the code, the same without the restriction to what had been
\* recorded: a signal may come between the fork and the assignment.
CleanStopLeavesNothing ==
    \A d \in Daemons : daemon[d] = "exit0" =>
        ~Alive(host[d]) /\ ~Alive(portal[d])

\* Once hyprcrd stop has returned, the daemons it could know of have ended, and
\* their portals, and their hosts if they lie where it looks, have at least been
\* told to end, wherever in its start or its stop the daemon was.
StopReachesEverything ==
    stopped => \A d \in Daemons \ lost :
        /\ ~Running(d) /\ portal[d] # "up"
        /\ d \notin Outside => host[d] # "up"

\* Not kept by the code, the same of every host: one outside BASE_DIR is not
\* found, and its daemon may have been killed before it ended or recorded it.
StopReachesEveryHost ==
    stopped => \A d \in Daemons \ lost : host[d] # "up"

\* Not kept by the code: the host is launched after the portal took its name.
PortalBeforeHost ==
    [][\A d \in Daemons : host[d] = "none" /\ host'[d] = "up" => name # None]_vars

\* A daemon that is told to stop, or whose host went, does end; the timeouts
\* of stop see to it when a child hangs.
DaemonEnds ==
    \A d \in Daemons :
        (d \in sigterm \/ (daemon[d] = "watch" /\ host[d] = "dead"))
            ~> daemon[d] \in Ended

\* Not kept by the code, which is killed in its turn by hyprcrd stop: a daemon
\* that waits for its host to end kills a host that does not, and no host
\* outlives a stop because it ignores SIGTERM.
HungHostIsKilled ==
    \A d \in Daemons : daemon[d] = "waitHost" ~> ~Alive(host[d])

\* Not kept by the code, the promise of Restart=on-failure: the unit brings the
\* service back when the host failed, unless the unit was stopped meanwhile.
UnitRecovers ==
    \A u \in Units :
        (user[u] = "foreground" /\ host[seen[u]] = "dead")
            ~> \/ user[u] = "foreground" /\ host[seen[u]] # "dead"
               \/ seen[u] \in sigterm
=============================================================================
