-------------------------- MODULE HostServiceProofs --------------------------
(****************************************************************************)
(* The safety of HyprCRDDaemon.stop, for any number of users and daemons;   *)
(* and that hyprcrd start and stop keep account of the daemons, for any     *)
(* number of terminals that take turns. (Two that do not can both start one.) *)
(****************************************************************************)
EXTENDS HostService, TLAPS

\* From the moment stop has dealt with the host, a recorded host is gone; and
\* from its end on a recorded portal is. A host could only come back through
\* Popen, which such a daemon does not reach any more.
HostGone ==
    \A d \in Daemons :
        daemon[d] \in {"stopPortal", "waitPortal", "exit0"} /\ d \in hostProc
            => ~Alive(host[d])

PortalGone ==
    \A d \in Daemons :
        daemon[d] = "exit0" /\ d \in portalProc => ~Alive(portal[d])

\* A command that works on a daemon knows which.
DaemonKnown ==
    \A u \in Users :
        user[u] \in {"writePid", "foreground", "interrupted", "grace"}
            => seen[u] \in Daemons

\* A unit runs nothing but start -f.
UnitsStart == \A u \in Units : user[u] \in {"idle", "spawn", "foreground"}

IInv == TypeOK /\ DaemonKnown /\ UnitsStart /\ HostGone /\ PortalGone

LEMMA InitIInv == Init => IInv
  BY DEF Init, IInv, TypeOK, DaemonKnown, UnitsStart, HostGone, PortalGone, UserSteps, DaemonSteps,
         ChildStates, Portals, Users

\* The commands: what they do to a child is to end it.
LEMMA CommandStep ==
    ASSUME ServiceAssumption, IInv, NEW u \in Users,
           \/ CmdStart(u) \/ CmdStop(u) \/ StopForeground(u) \/ CommandCut(u)
           \/ CommandGoesOn(u)
    PROVE  IInv'
<1> USE DEF IInv, TypeOK, DaemonKnown, UnitsStart, HostGone, PortalGone, UserGoes,
            UserSteps, commands, children, Alive, Termed, Portals, ChildStates,
            ServiceAssumption
<1>1. CASE CmdStart(u) \/ CmdStop(u) \/ WritePid(u) \/ UnlinkPid(u)
  <2>1. UnitsStart'
    BY <1>1 DEF CmdStart, CmdStop, WritePid, UnlinkPid, Users
  <2>2. TypeOK' /\ DaemonKnown'
    <3>1. CASE CmdStart(u)
      BY <3>1 DEF CmdStart
    <3>2. CASE CmdStop(u)
      <4>1. CASE AlreadyRunning
        <5>1. pidFile \in Daemons
          BY <4>1 DEF AlreadyRunning
        <5>2. /\ user' = [user EXCEPT ![u] = "grace"]
              /\ seen' = [seen EXCEPT ![u] = pidFile]
              /\ sigterm' = sigterm \cup {pidFile} /\ stopped' = FALSE
          BY <3>2, <4>1 DEF CmdStop
        <5>3. user' \in [Users -> UserSteps] /\ seen' \in [Users -> Daemons \cup {None}]
          BY <5>1, <5>2
        <5>4. DaemonKnown'
          <6>1. seen'[u] \in Daemons
            BY <5>1, <5>2
          <6>2. \A v \in Users \ {u} : user'[v] = user[v] /\ seen'[v] = seen[v]
            BY <5>2
          <6> QED
            BY <6>1, <6>2
        <5> QED
          BY <3>2, <5>1, <5>2, <5>3, <5>4 DEF CmdStop
      <4>2. CASE ~AlreadyRunning
        <5>1. /\ user' \in {[user EXCEPT ![u] = "unlink"], [user EXCEPT ![u] = "sweep"]}
              /\ seen' = seen /\ sigterm' = sigterm /\ stopped' = FALSE
          BY <3>2, <4>2 DEF CmdStop
        <5>2. user' \in [Users -> UserSteps] /\ DaemonKnown'
          BY <5>1
        <5> QED
          BY <3>2, <5>1, <5>2 DEF CmdStop
      <4> QED
        BY <4>1, <4>2
    <3>3. CASE WritePid(u) \/ UnlinkPid(u)
      BY <3>3 DEF WritePid, UnlinkPid
    <3> QED
      BY <1>1, <3>1, <3>2, <3>3
  <2> QED
    BY <1>1, <2>1, <2>2 DEF CmdStart, CmdStop, WritePid, UnlinkPid
<1>6. CASE CommandCut(u)
  <2>1. /\ pidFile' \in {pidFile, None} /\ lost' \in {lost, lost \cup {seen[u]}}
        /\ user' = [user EXCEPT ![u] = "idle"] /\ seen' = seen /\ stopped' = stopped
        /\ user[u] # "writePid" => lost' = lost
    BY <1>6 DEF CommandCut
  <2> QED
    BY <1>6, <2>1 DEF CommandCut
<1>2. CASE SpawnDaemon(u)
  <2>1. PICK d \in Daemons : /\ daemon[d] = "none"
                             /\ daemon' = [daemon EXCEPT ![d] = "boot"]
                             /\ seen' = [seen EXCEPT ![u] = d]
                             /\ lost' \in {lost, lost \cup {d}}
    BY <1>2 DEF SpawnDaemon
  <2>2. user' \in [Users -> UserSteps]
    BY <1>2 DEF SpawnDaemon
  <2>3. UnitsStart'
    BY <1>2 DEF SpawnDaemon, Users
  <2>4. TypeOK' /\ DaemonKnown'
    BY <1>2, <2>1, <2>2 DEF SpawnDaemon, DaemonSteps
  <2> QED
    BY <1>2, <2>1, <2>3, <2>4 DEF SpawnDaemon
<1>3. CASE GraceOver(u)
  <2>1. daemon' \in [Daemons -> DaemonSteps]
    BY <1>3 DEF GraceOver, AfterGrace, DaemonSteps, Ended
  <2>2. \A d \in Daemons : daemon'[d] = daemon[d] \/ daemon'[d] = "killed"
    BY <1>3 DEF GraceOver, AfterGrace
  <2> QED
    BY <1>3, <2>1, <2>2 DEF GraceOver
<1>4. CASE ForegroundEnds(u) \/ StopForeground(u)
  <2>1. /\ host' \in [Daemons -> ChildStates]
        /\ portal' \in [Portals -> ChildStates]
    BY <1>4 DEF ForegroundEnds, StopForeground
  <2>2. /\ \A d \in Daemons : Alive(host'[d]) => Alive(host[d])
        /\ \A d \in Daemons : Alive(portal'[d]) => Alive(portal[d])
    BY <1>4 DEF ForegroundEnds, StopForeground
  <2>3. user' \in [Users -> UserSteps] /\ sigterm' \subseteq Daemons
    <3>1. CASE ForegroundEnds(u)
      BY <3>1 DEF ForegroundEnds
    <3>2. CASE StopForeground(u)
      BY <3>2 DEF StopForeground
    <3> QED
      BY <1>4, <3>1, <3>2
  <2>4. UnitsStart'
    BY <1>4 DEF ForegroundEnds, StopForeground, Users
  <2> QED
    BY <1>4, <2>1, <2>2, <2>3, <2>4 DEF ForegroundEnds, StopForeground
<1>5. CASE Sweep(u)
  <2>1. /\ host' \in [Daemons -> ChildStates]
        /\ portal' \in [Portals -> ChildStates]
    BY <1>5 DEF Sweep
  <2>2. /\ \A d \in Daemons : Alive(host'[d]) => Alive(host[d])
        /\ \A d \in Daemons : Alive(portal'[d]) => Alive(portal[d])
    BY <1>5 DEF Sweep
  <2> QED
    BY <1>5, <2>1, <2>2 DEF Sweep
<1> QED
  BY <1>1, <1>2, <1>3, <1>4, <1>5, <1>6 DEF CommandGoesOn

\* The daemon's start: none of its steps is taken by a daemon that has begun to
\* end.
LEMMA StartStep ==
    ASSUME ServiceAssumption, IInv, NEW d \in Daemons,
           \/ Boot(d) \/ PortalActive(d) \/ ForkPortal(d) \/ RecordPortal(d)
           \/ PortalWaited(d) \/ PopenFails(d) \/ ForkHost(d) \/ RecordHost(d)
           \/ Watch(d) \/ HandleSigterm(d)
    PROVE  IInv'
<1> USE DEF IInv, TypeOK, DaemonKnown, UnitsStart, HostGone, PortalGone, DaemonGoes,
            DaemonSteps, Starting, Stopping, Ended, commands, children, Alive,
            Portals, ChildStates
<1>1. CASE Boot(d) \/ PortalActive(d) \/ PortalWaited(d) \/ PopenFails(d)
           \/ Watch(d) \/ HandleSigterm(d)
  <2>1. /\ daemon' \in [Daemons -> DaemonSteps]
        /\ sigterm' \subseteq Daemons
    BY <1>1 DEF Boot, PortalActive, PortalWaited, PopenFails, Watch,
                HandleSigterm
  <2>2. \A e \in Daemons :
            \/ daemon'[e] = daemon[e]
            \/ daemon'[e] \in {"portal", "host", "exit1", "killed", "stopHost"}
    BY <1>1 DEF Boot, PortalActive, PortalWaited, PopenFails, Watch,
                HandleSigterm
  <2> QED
    BY <1>1, <2>1, <2>2 DEF Boot, PortalActive, PortalWaited, PopenFails, Watch,
                            HandleSigterm
<1>2. CASE ForkPortal(d)
  BY <1>2 DEF ForkPortal
<1>3. CASE RecordPortal(d)
  BY <1>3 DEF RecordPortal
<1>4. CASE ForkHost(d)
  BY <1>4 DEF ForkHost
<1>5. CASE RecordHost(d)
  BY <1>5 DEF RecordHost
<1> QED
  BY <1>1, <1>2, <1>3, <1>4, <1>5

\* stop itself.
LEMMA StopStep ==
    ASSUME ServiceAssumption, IInv, NEW d \in Daemons,
           StopHost(d) \/ WaitHost(d) \/ StopPortal(d) \/ WaitPortal(d)
    PROVE  IInv'
<1> USE DEF IInv, TypeOK, DaemonKnown, UnitsStart, HostGone, PortalGone, DaemonGoes,
            DaemonSteps, Stopping, Ended, commands, children, Alive, Portals,
            ChildStates, AfterWait, Released
<1>1. CASE StopHost(d)
  <2>1. CASE d \in hostProc /\ Alive(host[d])
    BY <1>1, <2>1 DEF StopHost
  <2>2. CASE ~(d \in hostProc /\ Alive(host[d]))
    BY <1>1, <2>2 DEF StopHost
  <2> QED
    BY <2>1, <2>2
<1>2. CASE WaitHost(d)
  BY <1>2 DEF WaitHost
<1>3. CASE StopPortal(d)
  <2>1. CASE d \in portalProc /\ Alive(portal[d])
    BY <1>3, <2>1 DEF StopPortal
  <2>2. CASE ~(d \in portalProc /\ Alive(portal[d]))
    BY <1>3, <2>2 DEF StopPortal
  <2> QED
    BY <2>1, <2>2
<1>4. CASE WaitPortal(d)
  BY <1>4 DEF WaitPortal
<1> QED
  BY <1>1, <1>2, <1>3, <1>4

\* The children: only the bus's own portal comes up without a daemon.
LEMMA ChildStep ==
    ASSUME ServiceAssumption, IInv,
           \/ BusActivates
           \/ \E d \in Daemons : HostExits(d)
           \/ \E p \in Portals : PortalClaims(p) \/ PortalExits(p)
    PROVE  IInv'
<1> USE DEF IInv, TypeOK, DaemonKnown, UnitsStart, HostGone, PortalGone, commands, Alive,
            Portals, ChildStates
<1>1. CASE BusActivates
  BY <1>1 DEF BusActivates, ServiceAssumption
<1>2. CASE \E d \in Daemons : HostExits(d)
  BY <1>2 DEF HostExits
<1>3. CASE \E p \in Portals : PortalClaims(p) \/ PortalExits(p)
  <2>1. /\ portal' \in [Portals -> ChildStates]
        /\ name' \in Portals \cup {None}
    BY <1>3 DEF PortalClaims, PortalExits, Released
  <2>2. \A p \in Portals : Alive(portal'[p]) => Alive(portal[p])
    BY <1>3 DEF PortalClaims, PortalExits
  <2> QED
    BY <1>3, <2>1, <2>2 DEF PortalClaims, PortalExits
<1> QED
  BY <1>1, <1>2, <1>3

LEMMA NextIInv == ServiceAssumption /\ IInv /\ [Next]_vars => IInv'
<1> SUFFICES ASSUME ServiceAssumption, IInv, [Next]_vars
             PROVE  IInv'
  OBVIOUS
<1>1. CASE \E u \in Users : CmdStart(u) \/ CmdStop(u) \/ StopForeground(u)
                            \/ CommandCut(u) \/ CommandGoesOn(u)
  BY <1>1, CommandStep
<1>2. CASE \E d \in Daemons : DaemonGoesOn(d) \/ HandleSigterm(d)
                              \/ PopenFails(d) \/ HostExits(d)
  BY <1>2, StartStep, StopStep, ChildStep DEF DaemonGoesOn
<1>3. CASE (\E p \in Portals : PortalClaims(p) \/ PortalExits(p))
           \/ BusActivates
  BY <1>3, ChildStep
<1>4. CASE UNCHANGED vars
  BY <1>4 DEF vars, commands, children, IInv, TypeOK, DaemonKnown, UnitsStart, HostGone,
              PortalGone
<1> QED
  BY <1>1, <1>2, <1>3, <1>4 DEF Next

LEMMA SpecIInv == Spec => []IInv
<1>1. Init => IInv
  BY InitIInv
<1>2. IInv /\ [Next]_vars => IInv'
  BY NextIInv, ServiceAssumption
<1> QED
  BY <1>1, <1>2, PTL DEF Spec

\* The state of every command, daemon and child stays what it can be.
THEOREM TypeCorrect == Spec => []TypeOK
<1>1. IInv => TypeOK
  BY DEF IInv
<1> QED
  BY <1>1, SpecIInv, PTL

\* A daemon that leaves through stop leaves no child it had recorded.
THEOREM StopIsComplete == Spec => []RecordedChildrenEnd
<1>1. IInv => RecordedChildrenEnd
  BY DEF IInv, HostGone, PortalGone, RecordedChildrenEnd
<1> QED
  BY <1>1, SpecIInv, PTL

----------------------------------------------------------------------------
(* Taking turns: TurnSpec.                                                   *)

OnlyRuns(e) == \A d \in Daemons \ lost : Running(d) => d = e

NobodyRuns == \A d \in Daemons \ lost : ~Running(d)

AtRest == \A u \in Shells : user[u] \notin Busy

\* Who may run, of the daemons that got into PID_FILE or still may: between two
\* commands the one the file names, which is what a later start and a later
\* stop rely on; during one the daemon it works on, or nobody.
Accounted ==
    /\ AtRest => OnlyRuns(pidFile)
    /\ \A u \in Shells :
          /\ user[u] = "writePid" => OnlyRuns(seen[u])
          /\ user[u] = "grace" => OnlyRuns(seen[u]) /\ seen[u] = pidFile
          /\ user[u] \in {"spawn", "unlink", "sweep"} => NobodyRuns
          /\ user[u] \in Busy => ~stopped

ServiceInv == IInv /\ TakeTurns /\ Accounted /\ StopReachesEverything

\* What keeps the account: no other daemon gets to run, none that ended has a
\* child come up, and neither PID_FILE nor a busy command is touched.
LEMMA KeepsAccount ==
    ASSUME Accounted, StopReachesEverything,
           lost \subseteq lost', pidFile' = pidFile, stopped' => stopped,
           \A u \in Shells : user[u] \in Busy \/ user'[u] \in Busy
                                 => user'[u] = user[u] /\ seen'[u] = seen[u],
           \A d \in Daemons \ lost' :
              /\ Running(d)' => Running(d)
              /\ host'[d] = "up" => host[d] = "up" \/ Running(d)
              /\ portal'[d] = "up" => portal[d] = "up" \/ Running(d)
    PROVE  Accounted' /\ StopReachesEverything'
<1>1. StopReachesEverything'
  BY DEF StopReachesEverything
<1>2. AtRest' => AtRest
  BY DEF AtRest
<1>3. /\ \A e : OnlyRuns(e) => \A d \in Daemons \ lost' : Running(d)' => d = e
      /\ NobodyRuns => NobodyRuns'
  BY DEF OnlyRuns, NobodyRuns
<1>4. AtRest' => OnlyRuns(pidFile)'
  BY <1>2, <1>3 DEF Accounted, OnlyRuns
<1>5. ASSUME NEW u \in Shells, user'[u] \in Busy
      PROVE  /\ user'[u] = "writePid" => OnlyRuns(seen[u])'
             /\ user'[u] = "grace" => OnlyRuns(seen[u])' /\ seen'[u] = pidFile'
             /\ user'[u] \in {"spawn", "unlink", "sweep"} => NobodyRuns'
             /\ ~stopped'
  <2>1. user'[u] = user[u] /\ seen'[u] = seen[u]
    BY <1>5
  <2> QED
    BY <1>3, <1>5, <2>1 DEF Accounted, OnlyRuns
<1> QED
  BY <1>1, <1>4, <1>5 DEF Accounted, Busy

\* A daemon's own step starts no other daemon, and launches a child only while
\* the daemon runs.
LEMMA DaemonKeepsCount ==
    ASSUME IInv, NEW d \in Daemons,
           DaemonGoesOn(d) \/ HandleSigterm(d) \/ PopenFails(d) \/ HostExits(d)
    PROVE  /\ \A e \in Daemons :
                 /\ Running(e)' => Running(e)
                 /\ host'[e] = "up" => host[e] = "up" \/ Running(e)
                 /\ portal'[e] = "up" => portal[e] = "up" \/ Running(e)
           /\ UNCHANGED commands
<1> USE DEF IInv, TypeOK, DaemonGoes, Running, Ended, Portals
<1>1. CASE Boot(d) \/ PortalActive(d) \/ PortalWaited(d) \/ PopenFails(d)
           \/ Watch(d) \/ HandleSigterm(d)
  BY <1>1 DEF Boot, PortalActive, PortalWaited, PopenFails, Watch, HandleSigterm,
              children, commands
<1>2. CASE ForkPortal(d) \/ RecordPortal(d) \/ ForkHost(d) \/ RecordHost(d)
  BY <1>2 DEF ForkPortal, RecordPortal, ForkHost, RecordHost, commands
<1>3. CASE StopHost(d) \/ WaitHost(d)
  BY <1>3 DEF StopHost, WaitHost, AfterWait, commands
<1>4. CASE StopPortal(d) \/ WaitPortal(d)
  BY <1>4 DEF StopPortal, WaitPortal, AfterWait, commands
<1>5. CASE HostExits(d)
  BY <1>5 DEF HostExits, commands
<1> QED
  BY <1>1, <1>2, <1>3, <1>4, <1>5 DEF DaemonGoesOn

\* Nor does anything the children do by themselves.
LEMMA ChildrenKeepCount ==
    ASSUME ServiceAssumption, IInv,
           BusActivates \/ \E p \in Portals : PortalClaims(p) \/ PortalExits(p)
    PROVE  /\ UNCHANGED <<commands, daemon, host>>
           /\ \A e \in Daemons : portal'[e] = "up" => portal[e] = "up"
<1> USE DEF IInv, TypeOK, Portals, commands
<1>1. CASE BusActivates
  BY <1>1 DEF BusActivates, ServiceAssumption
<1>2. CASE \E p \in Portals : PortalClaims(p) \/ PortalExits(p)
  BY <1>2 DEF PortalClaims, PortalExits
<1> QED
  BY <1>1, <1>2

\* A command begins: no other is under way, so PID_FILE says who may run.
LEMMA BeginAccounts ==
    ASSUME ServiceAssumption, ServiceInv, TakeTurns', NEW u \in Users,
           CmdStart(u) \/ CmdStop(u)
    PROVE  Accounted' /\ StopReachesEverything'
<1> USE DEF ServiceInv, IInv, TypeOK, UserGoes, Users
<1>1. /\ user[u] = "idle" /\ ~stopped' /\ pidFile' = pidFile /\ lost' = lost
      /\ daemon' = daemon /\ host' = host /\ portal' = portal
      /\ \A v \in Users \ {u} : user'[v] = user[v] /\ seen'[v] = seen[v]
  BY DEF CmdStart, CmdStop, children
<1>2. \A d \in Daemons : Running(d)' <=> Running(d)
  BY <1>1 DEF Running
<1>3. CASE u \in Shells /\ user'[u] \in Busy
  <2>1. \A v \in Shells \ {u} : user'[v] \notin Busy
    BY <1>3 DEF TakeTurns
  <2>2. AtRest
    BY <1>1, <2>1 DEF AtRest, Busy
  <2>3. OnlyRuns(pidFile) /\ (~AlreadyRunning => NobodyRuns)
    BY <2>2, ServiceAssumption DEF Accounted, OnlyRuns, NobodyRuns, AlreadyRunning,
                                   Portals
  <2>4. \/ user'[u] = "grace" /\ AlreadyRunning /\ seen'[u] = pidFile
        \/ user'[u] \in {"spawn", "unlink", "sweep"} /\ ~AlreadyRunning
    BY <1>1, <1>3 DEF CmdStart, CmdStop, Busy
  <2>5. /\ user'[u] = "grace" => OnlyRuns(seen[u])' /\ seen'[u] = pidFile'
        /\ user'[u] \in {"spawn", "unlink", "sweep"} => NobodyRuns'
    BY <1>1, <1>2, <2>3, <2>4 DEF OnlyRuns, NobodyRuns
  <2> QED
    BY <1>1, <1>3, <2>1, <2>4, <2>5 DEF Accounted, StopReachesEverything, AtRest, Busy
<1>4. CASE ~(u \in Shells /\ user'[u] \in Busy)
  <2>1. \A v \in Shells : user[v] \in Busy \/ user'[v] \in Busy
                              => user'[v] = user[v] /\ seen'[v] = seen[v]
    BY <1>1, <1>4 DEF Busy
  <2> QED
    BY <1>1, <1>2, <2>1, KeepsAccount
<1> QED
  BY <1>3, <1>4

\* A step of a shell's command that is under way: no other is.
LEMMA BusyAccounts ==
    ASSUME ServiceAssumption, ServiceInv, TakeTurns', NEW u \in Shells,
           user[u] \in Busy, CommandGoesOn(u) \/ CommandCut(u)
    PROVE  Accounted' /\ StopReachesEverything'
<1> USE DEF ServiceInv, IInv, TypeOK, UserGoes, Users
<1>1. \A v \in Shells \ {u} : user[v] \notin Busy /\ user'[v] = user[v]
  <2>1. \A v \in Users \ {u} : user'[v] = user[v]
    BY DEF CommandGoesOn, CommandCut, SpawnDaemon, WritePid, ForegroundEnds,
           GraceOver, UnlinkPid, Sweep, commands
  <2> QED
    BY <2>1 DEF TakeTurns
<1>2. SUFFICES
        /\ user'[u] \notin Busy => OnlyRuns(pidFile)'
        /\ user'[u] = "writePid" => OnlyRuns(seen[u])'
        /\ user'[u] \notin {"grace", "spawn"}
        /\ user'[u] \in {"unlink", "sweep"} => NobodyRuns'
        /\ user'[u] \in Busy => ~stopped'
        /\ StopReachesEverything'
  BY <1>1 DEF Accounted, AtRest, Busy
<1> USE DEF Accounted, OnlyRuns, NobodyRuns, Running, Ended, Busy, commands, children,
            StopReachesEverything
<1>3. CASE SpawnDaemon(u)
  <2>1. ~stopped /\ NobodyRuns /\ stopped' = stopped
    BY <1>3 DEF SpawnDaemon
  <2>2. PICK d \in Daemons : /\ daemon' = [daemon EXCEPT ![d] = "boot"]
                             /\ seen' = [seen EXCEPT ![u] = d]
                             /\ \/ user'[u] = "writePid" /\ lost' = lost
                                \/ user'[u] = "foreground" /\ lost' = lost \cup {d}
    BY <1>3 DEF SpawnDaemon
  <2>3. \A e \in Daemons \ lost' : Running(e)' => e = d /\ user'[u] = "writePid"
    BY <2>1, <2>2
  <2> QED
    BY <2>1, <2>2, <2>3
<1>4. CASE WritePid(u)
  BY <1>4 DEF WritePid
<1>5. CASE GraceOver(u)
  BY <1>5 DEF GraceOver, AfterGrace, DaemonKnown
<1>6. CASE UnlinkPid(u)
  BY <1>6 DEF UnlinkPid
<1>7. CASE Sweep(u)
  <2>1. user'[u] = "idle" /\ daemon' = daemon /\ lost' = lost /\ NobodyRuns
    BY <1>7 DEF Sweep
  <2>2. \A d \in Daemons : portal'[d] # "up" /\ (d \notin Outside => host'[d] # "up")
    BY <1>7 DEF Sweep, HostFound, Termed, Portals
  <2> QED
    BY <2>1, <2>2
<1>8. CASE CommandCut(u)
  BY <1>8 DEF CommandCut
<1>9. ~ForegroundEnds(u)
  BY DEF ForegroundEnds
<1> QED
  BY <1>3, <1>4, <1>5, <1>6, <1>7, <1>8, <1>9 DEF CommandGoesOn

\* Everything else the users do: a start -f that waits, and the unit.
LEMMA AsideAccounts ==
    ASSUME ServiceAssumption, ServiceInv, NEW u \in Users,
           ~(u \in Shells /\ user[u] \in Busy),
           StopForeground(u) \/ CommandGoesOn(u) \/ CommandCut(u)
    PROVE  Accounted' /\ StopReachesEverything'
<1> USE DEF ServiceInv, IInv, TypeOK, UserGoes, Users, Running, Ended, Busy, commands,
            children, DaemonKnown, ServiceAssumption
<1>1. SUFFICES
        /\ lost \subseteq lost' /\ pidFile' = pidFile /\ stopped' = stopped
        /\ \A v \in Shells : user[v] \in Busy \/ user'[v] \in Busy
                                 => user'[v] = user[v] /\ seen'[v] = seen[v]
        /\ \A d \in Daemons \ lost' :
              /\ Running(d)' => Running(d)
              /\ host'[d] = "up" => host[d] = "up"
              /\ portal'[d] = "up" => portal[d] = "up"
  BY KeepsAccount
<1>2. CASE SpawnDaemon(u) /\ u \in Units
  BY <1>2 DEF SpawnDaemon
<1>3. CASE StopForeground(u)
  BY <1>3 DEF StopForeground, Termed, Portals
<1>4. CASE ForegroundEnds(u)
  BY <1>4 DEF ForegroundEnds, ExitCode, Termed, Portals
<1>5. CASE GraceOver(u) /\ u \in Shells
  BY <1>5 DEF GraceOver, AfterGrace
<1>6. CASE CommandCut(u)
  BY <1>6 DEF CommandCut
<1>7. /\ u \in Shells => ~SpawnDaemon(u)
      /\ ~WritePid(u) /\ ~UnlinkPid(u) /\ ~Sweep(u) /\ (GraceOver(u) => u \in Shells)
  BY DEF SpawnDaemon, WritePid, UnlinkPid, Sweep, GraceOver, UnitsStart
<1> QED
  BY <1>2, <1>3, <1>4, <1>5, <1>6, <1>7 DEF CommandGoesOn

LEMMA AccountStep ==
    ASSUME ServiceAssumption, ServiceInv, [Next /\ TakeTurns']_vars
    PROVE  ServiceInv'
<1>1. IInv' /\ TakeTurns'
  <2>1. [Next]_vars
    OBVIOUS
  <2>2. UNCHANGED vars => TakeTurns'
    BY DEF vars, commands, TakeTurns, ServiceInv
  <2> QED
    BY <2>1, <2>2, NextIInv DEF ServiceInv
<1>2. SUFFICES Accounted' /\ StopReachesEverything'
  BY <1>1 DEF ServiceInv
<1>3. CASE \E u \in Users : CmdStart(u) \/ CmdStop(u)
  BY <1>1, <1>3, BeginAccounts
<1>4. ASSUME NEW u \in Users, StopForeground(u) \/ CommandCut(u) \/ CommandGoesOn(u)
      PROVE  Accounted' /\ StopReachesEverything'
  <2>1. CASE u \in Shells /\ user[u] \in Busy
    <3>1. ~StopForeground(u)
      BY <2>1 DEF StopForeground, Busy
    <3> QED
      BY <1>1, <1>4, <2>1, <3>1, BusyAccounts
  <2>2. CASE ~(u \in Shells /\ user[u] \in Busy)
    BY <1>4, <2>2, AsideAccounts
  <2> QED
    BY <2>1, <2>2
<1>5. ASSUME /\ UNCHANGED commands
             /\ \A e \in Daemons :
                   /\ Running(e)' => Running(e)
                   /\ host'[e] = "up" => host[e] = "up" \/ Running(e)
                   /\ portal'[e] = "up" => portal[e] = "up" \/ Running(e)
      PROVE  Accounted' /\ StopReachesEverything'
  <2>1. /\ user' = user /\ seen' = seen /\ pidFile' = pidFile /\ lost' = lost
        /\ stopped' = stopped
    BY <1>5 DEF commands
  <2> QED
    BY <1>5, <2>1, KeepsAccount DEF ServiceInv
<1>6. CASE \E d \in Daemons : DaemonGoesOn(d) \/ HandleSigterm(d)
                              \/ PopenFails(d) \/ HostExits(d)
  BY <1>5, <1>6, DaemonKeepsCount DEF ServiceInv
<1>7. CASE BusActivates \/ \E p \in Portals : PortalClaims(p) \/ PortalExits(p)
  BY <1>5, <1>7, ChildrenKeepCount DEF ServiceInv, Running
<1>8. CASE UNCHANGED vars
  BY <1>5, <1>8 DEF vars, children, Running
<1> QED
  BY <1>3, <1>4, <1>6, <1>7, <1>8 DEF Next

LEMMA Account == TurnSpec => []ServiceInv
<1>1. Init => ServiceInv
  BY InitIInv DEF Init, ServiceInv, TakeTurns, Accounted, StopReachesEverything,
                  OnlyRuns, Running, Users, Busy
<1>2. ServiceInv /\ [Next /\ TakeTurns']_vars => ServiceInv'
  BY AccountStep, ServiceAssumption
<1> QED
  BY <1>1, <1>2, PTL DEF TurnSpec

\* While shells take turns, no two daemons ever run that got into PID_FILE or
\* still may, in whatever step the first one is when the next command comes and
\* wherever a command was cut off: cmd_start finds the other in PID_FILE, and
\* cmd_stop does not take the file away before it has ended.
THEOREM NoSecondDaemon == TurnSpec => []OneDaemon
<1>1. ServiceInv => OneDaemon
  <2> SUFFICES ASSUME ServiceInv PROVE OneDaemon
    OBVIOUS
  <2>1. NobodyRuns \/ \E e : OnlyRuns(e)
    BY DEF ServiceInv, Accounted, AtRest, Busy
  <2> QED
    BY <2>1 DEF OneDaemon, OnlyRuns, NobodyRuns
<1> QED
  BY <1>1, Account, PTL

\* While shells take turns, when hyprcrd stop is over no daemon runs that it
\* could know of, and no portal of theirs, and no host below BASE_DIR, is left as
\* it was: a daemon the one second was too short for is killed, and only a
\* running daemon launches a child behind the sweep's back.
THEOREM StopIsThorough == TurnSpec => []StopReachesEverything
<1>1. ServiceInv => StopReachesEverything
  BY DEF ServiceInv
<1> QED
  BY <1>1, Account, PTL
=============================================================================
