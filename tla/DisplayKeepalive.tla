-------------------------- MODULE DisplayKeepalive --------------------------
(****************************************************************************)
(* How the daemon (core/daemon.py) keeps the display awake while remote     *)
(* clients are connected. The reader thread follows the host's output and   *)
(* counts clients; the first one wakes the display and starts a keepalive   *)
(* thread that dispatches DPMS on every 30 seconds; the last disconnect     *)
(* stops it and, with the lid closed, puts the internal display back to     *)
(* sleep. The main thread may run stop() at any time. The threads share     *)
(* running, active_clients and keepalive_running without a lock.            *)
(****************************************************************************)
EXTENDS Naturals, Sequences, FiniteSets

CONSTANTS
    Threads,          \* identities for keepalive threads
    MaxConnects,      \* bound: clients that connect in a behaviour
    DispatchOutcomes  \* what a hyprctl dispatch may do: "ok", "failed" (logged)
                      \* or "raised" (the instance directory vanished while
                      \* _get_hypr_env sorted the directories by age)

ASSUME KeepaliveAssumption ==
    /\ MaxConnects \in Nat
    /\ DispatchOutcomes \subseteq {"ok", "failed", "raised"}

VARIABLES
    running,           \* self.running
    active_clients,
    keepalive_running,
    reader,            \* where the thread that reads the host's output is
    thread,            \* where each keepalive thread is; "free" has not begun
    main,              \* where the main thread is in stop()
    display,           \* DPMS state of the internal display
    lid,
    pipe,              \* client lines of the host not yet read
    clients,           \* clients connected to the host
    connects,          \* clients that have connected so far
    restored,          \* history: the display was put to sleep for the lid
    late               \* history: dispatches of each thread after stop()

vars == <<running, active_clients, keepalive_running, reader, thread, main,
          display, lid, pipe, clients, connects, restored, late>>

ReaderSteps == {"read", "wake", "start", "spawn", "stop", "lid", "off", "dead"}
ThreadSteps == {"free", "test", "sleep", "decide", "dispatch"}

Alive == main # "exited"

----------------------------------------------------------------------------
(* The host (external), the lid and the idle daemon of the desktop. *)

HostConnects ==
    /\ Alive /\ running /\ connects < MaxConnects
    /\ clients' = clients + 1
    /\ connects' = connects + 1
    /\ pipe' = Append(pipe, "connected")
    /\ UNCHANGED <<running, active_clients, keepalive_running, reader, thread,
                   main, display, lid, restored, late>>

HostDisconnects ==
    /\ Alive /\ clients > 0
    /\ clients' = clients - 1
    /\ pipe' = Append(pipe, "disconnected")
    /\ UNCHANGED <<running, active_clients, keepalive_running, reader, thread,
                   main, display, lid, connects, restored, late>>

IdleOff ==
    /\ Alive /\ display = "on"
    /\ display' = "off"
    /\ UNCHANGED <<running, active_clients, keepalive_running, reader, thread,
                   main, lid, pipe, clients, connects, restored, late>>

LidMoves ==
    /\ Alive
    /\ lid' = IF lid = "open" THEN "closed" ELSE "open"
    /\ restored' = FALSE
    /\ UNCHANGED <<running, active_clients, keepalive_running, reader, thread,
                   main, display, pipe, clients, connects, late>>

----------------------------------------------------------------------------
(* The reader thread: stream_host_output and what it calls. *)

ReaderAt(step) == Alive /\ reader = step

\* Faulty form of AfterConnect: the line is counted twice.
CountTwice == active_clients + 2

AfterConnect == active_clients + 1

\* Faulty form of AfterDisconnect: any disconnect resets the count.
ResetCount == 0

\* max(0, active_clients - 1)
AfterDisconnect == IF active_clients > 0 THEN active_clients - 1 ELSE 0

ReadLine ==
    /\ ReaderAt("read") /\ pipe # <<>>
    /\ pipe' = Tail(pipe)
    /\ \/ /\ Head(pipe) = "connected"
          /\ active_clients' = AfterConnect
          /\ reader' = "wake"
          /\ restored' = FALSE
       \/ /\ Head(pipe) = "disconnected"
          /\ active_clients' = AfterDisconnect
          /\ reader' = IF AfterDisconnect = 0 THEN "stop" ELSE "read"
          /\ UNCHANGED restored
    /\ UNCHANGED <<running, keepalive_running, thread, main, display, lid,
                   clients, connects, late>>

\* _wake_display: _get_hypr_env is called outside its try, so what it raises
\* ends the thread.
WakeDisplay ==
    /\ ReaderAt("wake")
    /\ \E outcome \in DispatchOutcomes :
          /\ display' = IF outcome = "ok" THEN "on" ELSE display
          /\ reader' = IF outcome = "raised" THEN "dead" ELSE "start"
    /\ UNCHANGED <<running, active_clients, keepalive_running, thread, main,
                   lid, pipe, clients, connects, restored, late>>

\* _start_display_keepalive: the flag, then the thread.
StartKeepalive ==
    /\ ReaderAt("start")
    /\ reader' = IF keepalive_running THEN "read" ELSE "spawn"
    /\ keepalive_running' = TRUE
    /\ UNCHANGED <<running, active_clients, thread, main, display, lid, pipe,
                   clients, connects, restored, late>>

SpawnKeepalive ==
    /\ ReaderAt("spawn")
    /\ \E t \in Threads :
          /\ thread[t] = "free"
          /\ thread' = [thread EXCEPT ![t] = "test"]
    /\ reader' = "read"
    /\ UNCHANGED <<running, active_clients, keepalive_running, main, display,
                   lid, pipe, clients, connects, restored, late>>

StopKeepalive ==
    /\ ReaderAt("stop")
    /\ keepalive_running' = FALSE
    /\ reader' = "lid"
    /\ UNCHANGED <<running, active_clients, thread, main, display, lid, pipe,
                   clients, connects, restored, late>>

\* _check_restore_lid_sleep reads the lid's state, then dispatches DPMS off;
\* here an exception is caught.
CheckLid ==
    /\ ReaderAt("lid")
    /\ reader' = IF lid = "closed" THEN "off" ELSE "read"
    /\ UNCHANGED <<running, active_clients, keepalive_running, thread, main,
                   display, lid, pipe, clients, connects, restored, late>>

RestoreSleep ==
    /\ ReaderAt("off")
    /\ \E outcome \in DispatchOutcomes :
          /\ display' = IF outcome = "ok" THEN "off" ELSE display
          /\ restored' = (outcome = "ok" /\ lid = "closed")
    /\ reader' = "read"
    /\ UNCHANGED <<running, active_clients, keepalive_running, thread, main,
                   lid, pipe, clients, connects, late>>

Reader == \/ ReadLine \/ WakeDisplay \/ StartKeepalive \/ SpawnKeepalive
          \/ StopKeepalive \/ CheckLid \/ RestoreSleep

----------------------------------------------------------------------------
(* A keepalive thread: while flag and running, sleep(30), then dispatch if a *)
(* client is there.                                                         *)

ThreadMoves(t, from, to) ==
    /\ Alive /\ thread[t] = from
    /\ thread' = [thread EXCEPT ![t] = to]
    /\ UNCHANGED <<running, active_clients, keepalive_running, reader, main,
                   lid, pipe, clients, connects, restored>>

\* Faulty forms of LoopGoesOn: the loop runs while nobody is connected; it
\* forgets to look at running; it forgets to look at its flag.
LoopWhileIdle == keepalive_running /\ running /\ active_clients = 0
LoopIgnoresRunning == keepalive_running
LoopIgnoresFlag == running

LoopGoesOn == keepalive_running /\ running

LoopTest(t) ==
    /\ ThreadMoves(t, "test", IF LoopGoesOn THEN "sleep" ELSE "free")
    /\ UNCHANGED <<display, late>>

SleepEnds(t) ==
    /\ ThreadMoves(t, "sleep", "decide")
    /\ UNCHANGED <<display, late>>

\* Faulty form of ClientThere: one client is not enough.
SeveralClients == active_clients > 1

ClientThere == active_clients > 0

Decide(t) ==
    /\ ThreadMoves(t, "decide", IF ClientThere THEN "dispatch" ELSE "test")
    /\ UNCHANGED <<display, late>>

\* What _get_hypr_env raises ends the thread; the flag stays as it is.
Dispatch(t) ==
    /\ \E outcome \in DispatchOutcomes :
          /\ ThreadMoves(t, "dispatch",
                         IF outcome = "raised" THEN "free" ELSE "test")
          /\ display' = IF outcome = "ok" THEN "on" ELSE display
    /\ late' = [late EXCEPT ![t] = IF ~running /\ @ < 2 THEN @ + 1 ELSE @]

Keepalive(t) == LoopTest(t) \/ SleepEnds(t) \/ Decide(t) \/ Dispatch(t)

----------------------------------------------------------------------------
(* stop(), on a signal or when the host has exited. *)

MainMoves(from, to) ==
    /\ main = from
    /\ main' = to
    /\ UNCHANGED <<active_clients, reader, thread, display, lid, pipe, clients,
                   connects, restored, late>>

StopRunning ==
    /\ MainMoves("up", "stopping")
    /\ running' = FALSE
    /\ UNCHANGED keepalive_running

StopFlag ==
    /\ MainMoves("stopping", "stopped")
    /\ keepalive_running' = FALSE
    /\ UNCHANGED running

\* The daemon threads end with the process.
Exit ==
    /\ MainMoves("stopped", "exited")
    /\ UNCHANGED <<running, keepalive_running>>

----------------------------------------------------------------------------
Init ==
    /\ running = TRUE
    /\ active_clients = 0
    /\ keepalive_running = FALSE
    /\ reader = "read"
    /\ thread = [t \in Threads |-> "free"]
    /\ main = "up"
    /\ display = "on"
    /\ lid = "open"
    /\ pipe = <<>>
    /\ clients = 0
    /\ connects = 0
    /\ restored = FALSE
    /\ late = [t \in Threads |-> 0]

Next ==
    \/ HostConnects \/ HostDisconnects \/ IdleOff \/ LidMoves
    \/ Reader
    \/ \E t \in Threads : Keepalive(t)
    \/ StopRunning \/ StopFlag \/ Exit

Spec == Init /\ [][Next]_vars

\* A dispatch of a keepalive thread that reaches the compositor.
Succeeds(t) == Dispatch(t) /\ display' = "on"

\* The threads of a live process go on, and a dispatch that is repeated for ever
\* does not fail every time; nothing else has to happen.
FairSpec ==
    /\ Spec /\ WF_vars(Reader)
    /\ \A t \in Threads : WF_vars(Keepalive(t)) /\ SF_vars(Succeeds(t))

----------------------------------------------------------------------------
(* Properties. *)

\* The type invariant.
TypeOK ==
    /\ running \in BOOLEAN /\ keepalive_running \in BOOLEAN
    /\ active_clients \in 0..MaxConnects
    /\ reader \in ReaderSteps
    /\ thread \in [Threads -> ThreadSteps]
    /\ main \in {"up", "stopping", "stopped", "exited"}
    /\ display \in {"on", "off"} /\ lid \in {"open", "closed"}
    /\ pipe \in Seq({"connected", "disconnected"})
    /\ clients \in 0..MaxConnects /\ connects \in 0..MaxConnects
    /\ restored \in BOOLEAN
    /\ late \in [Threads -> 0..2]

Unread(line) == Cardinality({n \in 1 .. Len(pipe) : pipe[n] = line})

\* The count follows the host: it differs from the clients connected by the
\* lines not read yet and by nothing else.
CountFollowsHost ==
    active_clients + Unread("connected") = clients + Unread("disconnected")

\* Whenever the reader waits for the next line and a client is there, the
\* keepalive is on and a thread serves it: no order of connects, disconnects
\* and thread exits leaves the flag up with nobody behind it.
ClientKeepsDisplayAwake ==
    running /\ reader = "read" /\ active_clients > 0
    => keepalive_running /\ \E t \in Threads : thread[t] # "free"

\* Once stop() has begun a thread wakes the display at most once more, even
\* if the reader raises the flag again behind stop()'s back.
LateDispatchAtMostOnce == \A t \in Threads : late[t] <= 1

\* With a client there, a display that goes to sleep is woken up again.
DisplayComesBack ==
    (running /\ reader = "read" /\ active_clients > 0 /\ display = "off")
    ~> (display = "on" \/ active_clients = 0 \/ ~running)

\* When the keepalive stays off, its threads end.
KeepaliveEnds ==
    <>[](Alive /\ ~keepalive_running)
    => <>[](\A t \in Threads : thread[t] = "free")

\* Not kept by the code, a claim of the tests: while the daemon runs there is no
\* second keepalive thread.  A reconnect starts one beside a thread still asleep.
AtMostOneKeepalive ==
    running => Cardinality({t \in Threads : thread[t] # "free"}) <= 1

\* Not kept by the code, a claim of the log: with the lid closed the last
\* disconnect puts the internal display to sleep, and it stays so until a
\* client, or the lid, wakes it.
LidSleepRestored ==
    restored /\ reader = "read" /\ active_clients = 0 => display = "off"

\* Not kept by the code where the dispatch raises, a claim of the tests: a
\* wake-up that fails is survived.
ReaderSurvives == reader # "dead"
=============================================================================
