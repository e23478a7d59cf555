# Verification of hyprCRD

TLA+ models of hyprCRD, the native Chrome Remote Desktop host for Hyprland, with TLC configurations that check
them on small instances and TLAPS proofs of the properties that matter most. Paths below are those of the
repository.

## 1. The system

| component | source | state | operations | how it interacts |
| :-- | :-- | :-- | :-- | :-- |
| Service lifecycle | `bin/hyprcrd`, `core/daemon.py`, `systemd/hyprcrd.service.in` | PID file; daemon processes and where each is in `run` or `stop`; `host_proc`, `portal_proc`; the portal's D-Bus name | `cmd_start`, `cmd_stop` (and restart), `run`, `start_portal_if_needed`, `stop`, `_on_shutdown` | spawns the portal and the host; signals, the PID file and a sweep over all processes tie the commands to the daemon |
| Display keepalive | `core/daemon.py` | `active_clients`, `keepalive_running`, `running`, the threads | reading the host's output, wake-up, keepalive loop, lid sleep | the reader thread, keepalive threads and main thread share plain attributes; `hyprctl` changes the display |
| Portal process | `portal/src/main.cpp`, `libei_handler.cpp`, `portal.cpp`, `wayland_virtual_*.cpp` | `running` of main, Portal and LibEIHandler; the devices, contexts and threads | init in order, run, signal, stop and join, cleanup in reverse order, `ConnectToEIS` | a libei thread, a D-Bus thread and one detached thread per `ConnectToEIS` use objects main destroys |
| Picker handshake | `portal.cpp` (sessions), `select_marker.cpp`, `bin/hyprcrd-picker` | the marker file and its age, exported sessions, a blocked event loop | `CreateSession`, `Start`, `Close`, the picker's check, consume and delegation | D-Bus calls of the frontend come in; synchronous calls go to xdg-desktop-portal-hyprland (xdph), which runs the picker |
| Keyboard input | `portal.cpp`, `wayland_virtual_keyboard.cpp` | the modifier words, the compositor's keys and modifiers | `NotifyKeyboardKeycode`, `EIS_EVENT_KEYBOARD_KEY` | D-Bus thread and EIS threads share the words and the Wayland connection |
| Pointer input | `portal.cpp`, `wayland_virtual_pointer.cpp` | the requests of each event on their way; the compositor's pointer | motion, buttons, smooth and discrete scrolling, frames | D-Bus thread and EIS threads send through one virtual pointer without a lock |
| PAM handle tracking | `core/pam_shim.c` | `crd_handles`, `n_handles` | `pam_start`, `pam_acct_mgmt`, `pam_end` | preloaded into the host, in front of libpam |
| PipeWire and cursor hooks | `core/pam_shim.c` | the two looked-up pointers | `pw_stream_update_params`, `dlsym`, the GDBus call hooks | preloaded into the host, between its capture threads and libpipewire, and in front of its portal calls |
| Instance and monitor selection | `core/daemon.py`, `bin/hyprcrd-picker`, `portal.cpp` | `current_monitor`, read at start-up; EIS regions | `_get_hypr_env`, the picker's loop over instances, `Portal::init`'s read, absolute positions | three programs judge the same directories, lock files and `hyprctl` answers, each for itself |
| Configuration lookup | `core/daemon.py`, `bin/hyprcrd` | none | choice of the newest configuration | reads the file system |
| LibEIHandler event handlers | `libei_handler.cpp` | seat | `handle_event` | its receiver context has no backend, so no event comes |
| Install, enrolment, status, doctor, packaging | `scripts/`, `bin/`, `packaging/` | files | sequential scripts | external tools |

What is hard in this code: threads that share plain booleans and words (portal, daemon), a single-threaded event
loop that makes synchronous calls, a file used as a message between two programs, timeouts that stand for
events (half a second for a bus name, one second for a shutdown of up to five), signals that arrive anywhere,
processes that end in the middle. `PROJECT.json` lists each such place under `hazards`, with its line and the
properties that watch it.

What makes each part correct:

- *Service*: one daemon at a time, if it got into the PID file; what a daemon launched ends with it; a stop reaches
  every daemon it can know of, its portal, and its host below `BASE_DIR`; a daemon that is told to end does.
- *Keepalive*: while a client is there the display comes back; when nobody is there nothing wakes it; threads
  do not pile up and end.
- *Portal process*: nobody uses what was destroyed; the bus name is only owned while calls can be served; a
  signal ends the process.
- *Handshake*: a marker lets one request through, the one it was written for unless another came in between, and
  is gone afterwards; calls are answered; the portal and xdph agree on the sessions.
- *Keyboard*: the compositor sees each key with the modifiers of the events up to it; nothing stays down.
- *Pointer*: every request gets its frame, no scroll is left open, no button down without a reason, every
  distance counts once.
- *PAM tracking*: exactly the open CRD handles are answered for.
- *Capture hooks*: a running stream is never renegotiated; a cursor mode with the metadata bit is replaced by one
  the frontend accepts, and every other one left as it is.
- *Selection*: what the daemon wakes is what the picker shared, as long as that lives and nothing newer starts; the
  region offered to input clients is the shared monitor, and a position in it arrives there.

## 2. Modules

| module | of | extends / instances | theorems |
| :-- | :-- | :-- | :-- |
| `SelectionGrant` | what the marker promises: a permit per session, a request per permit | | `PickerHandshakeProofs` |
| `PickerHandshake` | sessions, marker, picker, xdph | instances `SelectionGrant` | `PickerHandshakeProofs` |
| `PamShim` | handle array of the shim | | `PreloadShimProofs` |
| `PreloadShim` | the whole preloaded library: the array, the capture hooks | extends `PamShim` | `PreloadShimProofs` |
| `KeyInput` | what keyboard input promises: one atomic step per key event | | |
| `KeyboardBridge` | the steps of a key event in the portal | instances `KeyInput` | `KeyboardBridgeProofs` |
| `PointerBridge` | the requests and frames of a pointer event | | `PointerBridgeProofs` |
| `ScreenSelection` | Hyprland instance, monitor, region, absolute positions | | `ScreenSelectionProofs` |
| `DisplayKeepalive` | reader, keepalive threads, display, lid | | `DisplayKeepaliveProofs` |
| `PortalProcess` | main, its threads and objects | | `PortalProcessProofs` |
| `HostService` | commands, PID file, daemons, children, unit | | `HostServiceProofs` |

`MCPickerHandshake` and `MCPreloadShim` add symmetry sets, `MCScreenSelection` the monitor layouts, `MCHostService`
a state constraint. Everything else is set in the `.cfg` files.

### Correspondence with the code

`map` in `PROJECT.json` gives the lines of each definition. The main choices:

- **PickerHandshake.** One state variable per shared thing: `marker` and `age` (the file and its mtime), `portal`
  (the event loop: which handler is blocked, for which session, with what answer), `xdphQ` (calls xdph has not
  taken), `picker` (the script, between its test of the marker and its `rm`). A handler is two actions, up to its
  synchronous call and after it, because that is where other processes run. The frontend, other applications
  and xdph are external: xdph takes one request at a time and waits for its picker. Any call may fail at once
  or time out; a timed-out call stays in xdph's queue. The portal may exit at any time and is activated again
  with no sessions. `marked` and `disturbed` are history: whose marker was written, and whose has since been
  removed by another's handshake or picker.
- **SelectionGrant.** The abstract promise of the handshake. Under the refinement mapping the permit is there while
  the marker is valid and no picker has found it so; the picker uses it at its test, not at its `rm`. A request
  that is issued a permit while another picker stands between the two loses it to that picker's `rm`, which the
  abstract `Issue` allows.
- **PamShim.** The array and its count, and libpam's idea of which handle is open for which service. An address
  is used again after `pam_end`. Both hooks run to their end before another call (the host's PAM calls come from
  one thread).
- **PreloadShim.** The whole library in the host. `init_pw_symbols` is four steps, one for each lookup, since the
  capture threads are not kept out of it; a lookup finds libpipewire opened by name, loaded after the shim, or
  not at all. The host (external) holds its loop's lock during a call, so the state of a thread's own stream
  stands still in it, and a stream that is renegotiated while streaming ends. A cursor mode is the set of its
  bits, any of the eight sets; the frontend (external) accepts one bit, of those xdph advertises, and refuses 0 and
  3, which the library sends as they came.
- **KeyInput / KeyboardBridge.** A modifier word is a set of modifiers. A key event is: read and compute, store,
  send modifiers, send key, send modifiers; the word is read again before each send, as the C++ does, with other
  injectors in between. An injector is the D-Bus thread or an EIS thread. The refinement mapping lets the
  abstract step happen where the compositor gets the key.
- **PointerBridge.** A handler turns an event into the sequence of requests the C++ makes; the sequences of the
  injectors then interleave at the compositor, request by request. An axis source opens a scroll, axis and stop
  are per axis, a frame ends what came before it from every injector. Distances are summed modulo `Wrap`.
- **ScreenSelection.** A directory of an instance has a lock file whose PID is the instance's, nobody's, or has gone
  to another process of the same or of another user; `os.kill` and the shell's `kill` differ on the last. Layouts
  are one-dimensional, the second coordinate works as the first. A coordinate becomes a `uint32_t` modulo
  `UintRange`; from a negative double it wraps or saturates, as the processor has it. Where the compositor spans
  an absolute position, over its whole layout or over one monitor, is left open (external). `steady` is history: no
  instance has started since the picker shared one.
- **DisplayKeepalive.** The reader thread, any number of keepalive threads and the main thread in `stop` step
  between the accesses to shared attributes. The host's output is a queue. A dispatch may succeed, fail (and be
  logged) or raise, where `_get_hypr_env` is called outside a `try`. The 30 seconds are a step of no given length.
- **PortalProcess.** `main` is a sequence of steps; each init may fail; every thread is a small automaton that
  marks what it uses; `misused` remembers a use after destruction. `leave` is sdbus's request to its event loop:
  it stays until the loop looks, and the loop serves pending calls first. Each thread also ends by an error of its
  own: `select` and `poll` below zero, a missing descriptor, an exception out of the event loop.
- **HostService.** A command is a sequence of steps (`user`), a daemon is one (`daemon`), children are "up", asked
  to end ("term") or dead. `Popen` is two steps, the fork and the assignment, since a Python signal handler can
  run between them. A wait ends with the child or with its timeout and a kill. Processes end at any time, and so do
  commands (`CommandCut`): one that is cut off between `Popen` and `write_text` leaves a daemon that no file names.
  `start -f` writes no PID file; the unit is stopped with its control group, a shell's `start -f` by Ctrl-C, after
  which `subprocess.run` waits a quarter of a second and kills. `lost` is history: the daemons PID_FILE was never
  written for. The sweep of `hyprcrd stop` is one step; its test is `A or B and C`, so a portal is found wherever it
  lies (by the name `hyprcrd-portal`) and a host only below `BASE_DIR`: `Outside` is the set of daemons whose host is
  not, by an override in the environment or another installation. PIDs are not reused.

## 3. Runs

Passing runs:

| run | bounds | what it shows |
| :-- | :-- | :-- |
| `handshake_sessions` | 2 sessions, marker lifetime 2 ticks | marker never outlives the handshake; a session's request reaches a person only after another's disturbance or a marker that aged; SelectSources finds its paired session; a closed session does not stay in xdph; refinement of `SelectionGrant` |
| `handshake_answers` | 1 session, 2 applications, lifetime 2, fairness | every call to the portal is answered, or the portal ends |
| `shim` | 3 handles, array of 2, 2 capture threads, no cursor mode or one of all eight | the array is exactly the open CRD handles it had room for; no running stream is renegotiated but in one window; `SelectSources` is accepted when it was acceptable or asked for metadata |
| `pointer` | D-Bus and one EIS thread, 2 buttons, distances 0 and 1, sums modulo 4 | what is begun is framed and stopped; no button down without a reason; every scroll counts once and in full |
| `screen` | 2 instances, 4 layouts of at most 2 monitors, coordinates modulo 32 | the daemon follows the picker to the shared instance while that lives; the region is the shared monitor; positions on a lone monitor arrive |
| `keyboard_one` | two Shift keys, Ctrl, CapsLock, a letter; one injector | refinement of `KeyInput`; nothing unsent, no phantom key or modifier |
| `keepalive` | 3 threads, 2 connects, dispatches succeed or fail, fairness | count follows the host; a client keeps the display awake and gets it back; at most one late dispatch; threads end |
| `process` | 2 EIS threads, signals at any time, fairness | joined threads never use what was destroyed; name owned only while devices exist; a signal that finds the libei thread begun ends the process |
| `service_shell` | 1 shell in the background, 1 unit, 2 daemons, one of them with its host outside `BASE_DIR`; no portal started by D-Bus | one daemon of those in the PID file; a clean stop leaves no recorded child; stop reaches what it looks for |
| `service_ends` | 1 shell, 1 unit, 1 daemon, foreground commands and portals of D-Bus too, fairness | a daemon that is told to stop ends |

Runs that must find a violation, each of what a document or the source says (quoted in `findings`):

| run | property | what TLC shows |
| :-- | :-- | :-- |
| `process_init_failure` | `NeverAborts` | `Portal::init` fails with the libei thread running: `std::terminate` |
| `screen_extent` | `PositionsInExtent` | the first monitor is not at the origin: a position inside its region is sent beyond the extent that goes with it |

Why the bounds are enough: two sessions give every way one handshake can disturb another (there is one marker
and one event loop); three handles over two places fill the array, overflow it and move entries by `pam_end`,
and two threads meet in every step of the lookups; two injectors are enough for one's requests to fall between
any two of another's (for more, section 5); two buttons keep what is said of one apart from the other; two
instances are an old and a new one, and the layouts have the first monitor alone, at the origin, right of it
and left of it; the five keys are one of each class (a pair, a single modifier, a lock, a plain key); three
keepalive threads are one more than two connects can start; two daemons let an old one be there when a new
one starts, one of the shell and one of the unit, or one cut off and one after it. A marker lifetime of 2 ticks lets
a marker be read fresh and aged after a step of the clock. `service_shell` excludes the portals D-Bus starts
(`NotActivated`) to stay small: the daemons' own portals contend for the name as they would with those,
`service_ends` has them, and the theorems are about both. Limits that matter to a property are those of section 4:
shells that take turns in `service_shell`, one injector in `keyboard_one`.

Deadlock is checked in `shim`, `pointer`, `screen` and `keyboard_one`; the other systems may stop (all sessions
over, process ended, all daemons used), so their configurations switch it off.

Each passing property has a mutant, a definition of the model changed the way a bug in the code would, under
which TLC finds the property violated.

### Fairness

- `PickerHandshake!FairSpec`: a synchronous sdbus call always ends by its timeout (25 s by default), and a handler
  goes on after its call. Nothing is assumed of xdph, the user at a picker or the frontend.
- `DisplayKeepalive!FairSpec`: the reader and the keepalive threads of a live process are scheduled. Strong
  fairness of `Succeeds`: a `hyprctl dispatch` repeated for ever does not fail every time (Hyprland is there).
- `PortalProcess!FairSpec`: main, the libei thread and the D-Bus thread are scheduled. Strong fairness of
  `PortalLeaves`: sdbus serves pending calls before it looks at the request to leave, so it assumes that clients
  pause once in a while, which people moving a pointer do.
- `HostService!FairSpec`: commands and daemons go on and a pending signal is handled (Python runs a handler
  between two bytecodes; blocking calls are interrupted). Nothing is assumed of host and portal, which may
  ignore SIGTERM, and of those who type commands only that they do not cut off every single `hyprcrd stop` (strong
  fairness of `GraceOver`): each one sends a SIGTERM that begins the daemon's stop anew, and only its SIGKILL ends
  that if the daemon never gets through.

## 4. Statements the code does not keep

Besides the two violation runs, these definitions of the modules are false of the code. Each can be seen by
giving it to TLC with the constants named; they mark the borders of the passing properties.

| definition | constants | behaviour |
| :-- | :-- | :-- |
| `PickerHandshake!OnlyPairedUnattended` | 1 session, 1 application, `MarkerTTL` 1 | another application's request is the next after the marker was written, and is served with it, unasked |
| `PickerHandshake!UnattendedAccess` | 2 sessions, `MarkerTTL` 2 | the Start or Close of one session removes the marker of another, whose picker then asks the absent user |
| `PickerHandshake!StartSuccessHasStreams` | 1 session, `MarkerTTL` 1 | the call to ScreenCast.Start raises and the portal's Start answers success without streams |
| `PamShim!AnswersEveryCRDHandle` | `Cap` 2, 3 handles | a handle that came when the array was full goes to libpam |
| `PreloadShim!NoStreamLost` | 2 threads | a thread that finds the first pointer set and the second not takes the guard for absent |
| `PointerBridge!FramesHoldOneEvent` | 1 EIS thread | the frame of one thread ends the half-sent event of another |
| `ScreenSelection!WakesNothingElse` | 2 instances, layouts of `MCScreenSelection` | the lock of an ended instance names another user's process: the daemon takes it for alive, the picker does not |
| `ScreenSelection!LandsOnMonitor` | 1 instance, layouts of `MCScreenSelection` | with a second monitor or an offset the position lands elsewhere |
| `ScreenSelection!RegionIsCurrent` | 1 instance, the same layouts | the monitor changes after the portal read it |
| `KeyboardBridge!HeldModifiersAreDown` | `Keys` {42, 54}, 1 injector | both Shift keys down, one released: the modifier is up |
| `KeyboardBridge!CompositorInSync` | `Keys` {42, 29}, 2 injectors | the D-Bus thread and an EIS thread overwrite each other's modifiers |
| `DisplayKeepalive!AtMostOneKeepalive` | 2 threads, 2 connects | a reconnect within the 30 s sleep starts a second thread |
| `DisplayKeepalive!LidSleepRestored` | 1 thread, 1 connect | a thread that decided before the disconnect wakes the display after it was put to sleep |
| `DisplayKeepalive!ReaderSurvives` | `DispatchOutcomes` {"ok", "raised"} | `_get_hypr_env` raises in the reader thread, which ends; nobody reads the host's output any more |
| `PortalProcess!ShutdownAlwaysCompletes` | 1 EIS thread, `FairSpec` | `LibEIHandler::stop` before `run` sets its flag is lost; main's join does not end |
| `PortalProcess!DetachedThreadsAreSafe` | 1 EIS thread | a detached thread handles an event after the devices are gone |
| `HostService!OneDaemon` | `Spec`, 2 shells, 2 daemons | two `hyprcrd start` at once both find no PID file |
| `HostService!OneDaemonAtAll` | `TurnSpec`, 1 shell, 2 daemons, `Foreground` TRUE or FALSE | `start -f` and the unit write no PID file, and a start cut off after its `Popen` has not yet: the next `hyprcrd start` gives a second daemon |
| `HostService!StopReachesEveryHost` | 1 shell, 1 daemon, `Outside` the same | the daemon is killed in its stop, or before it recorded the host, and the sweep looks for `BASE_DIR` in a host's command line |
| `HostService!CleanStopLeavesNothing` | 1 shell, 1 daemon | SIGTERM between the fork of a child and its assignment |
| `HostService!PortalBeforeHost` | 1 shell, 1 daemon | the half second is over before the portal has its name |
| `HostService!UnitRecovers` | 1 unit, 2 daemons, `FairSpec` | the host crashes, the daemon ends with status 0 and `Restart=on-failure` does nothing |
| `HostService!HungHostIsKilled` | 1 shell, 1 daemon, `FairSpec` | `hyprcrd stop` kills the daemon after one second, in the middle of its three seconds for the host |

`OnlyPairedUnattended` is where the documents say more than the code can do. `SECURITY.md:36`: "The marker is written
by `hyprcrd-portal` solely for its own paired ScreenCast session and is consumed on use. All other requests go to the
standard picker"; `ARCHITECTURE.md:84`: "To authorize automatic selection for CRD's own screencast only"; the picker
itself (`bin/hyprcrd-picker:6`): "Auto-approval is only allowed for screencasts initiated by hyprcrd-portal". The same
line 84 says that xdph runs the picker "without identifying the requesting application", and so the picker tests a
file and not a requester: the first request after the marker was written is approved, whoever made it, within 30
seconds. It is then the CRD session that is turned away to a person. `UnattendedUnlessDisturbed` is what remains of
the promise to the session, and `OneEach` of the promise to everyone else: as many unasked approvals as markers.

Keys and buttons of a client that goes away stay down in the compositor; `KeysAccountedFor` and `NoPhantomButton` count
them as orphaned and say that there are no others.

## 5. Proofs

All theorems hold for every value of the constants that satisfies the named assumptions of the modules. Every
invariant a run checks is also proved; where a theorem needs more than the module's assumptions, its hypothesis is
named here. TLC checked each inductive invariant on a small instance before it was proved, but for the ledger of
the pointer, which quantifies over sequences of any length.

- **PickerHandshakeProofs.** `TypeCorrect`, `MarkerRemoved`, `Refinement`, `OneEach`, `UnattendedServed`,
  `PairedFound`, `ClosedFollows`. The inductive invariant adds to `MarkerNotOutlived` that the phase of a session
  follows the handler the event loop is in: while Start or Close of the marker's session is blocked the file may
  still name it, and only the return of that handler makes the phase final, in the step that removes the file.
  `Refinement` shows that every step is one of `SelectionGrant` or changes nothing of it. Its second invariant,
  `AskedOnce`, says that a request for a selection is in xdph's queue, with a picker or answered, in one of these and
  once: without it an answer could be overwritten and a request served without asking would vanish. `OneEach` follows
  from the refinement and `PermitsBoundServed`, which holds of the grant alone: requests served without asking never
  outnumber permits, with one in hand while a permit is there. `UnattendedServed` is an action property: its
  invariant, `MarkerStands`, says that while a session waits and was not disturbed there is a marker in the file, no
  older than its own, so that a picker that finds none valid finds its session's aged. `PairedFound` and
  `ClosedFollows` are about the order of a session's messages (`PairInv`): a SelectSources in the queue has its
  CreateSession before it or is known at xdph already, and nothing of a session comes after its Close, so a call that
  timed out and is taken late never revives a session its Close has ended.
- **PointerBridgeProofs.** `TypeCorrect`, `Completed`, `ButtonsHaveReasons`, `AllIsScrolled`, for any number of threads.
  The invariant is about what is left of each event: it ends with a frame, an axis request is followed by its stop,
  a press is of a button still held. Every sequence the handlers build has that form, and sending its head keeps it;
  what another thread sends takes nothing of it away. `AllIsScrolled` needs the sum of what is left over all threads,
  of which there may be any number. Instead of summing over a set, its invariant says that there is a ledger: a list
  of entries, one for each event that still scrolls, with partial sums that lead from what the compositor got to what
  is due. An event adds an entry at the end, a request that scrolls sets its entry to zero and shifts the sums before
  it. That the sums agree when no entry is open is an induction over the list, done with the least place at which
  they would differ.
- **PreloadShimProofs.** `HooksApart` shows that a behaviour of the whole library is one of `PamShim`, so what holds of
  the PAM hooks holds in it: `NoStaleEntry`, `NoneLost`, `OnlyOwnHandles`. Entries are distinct open CRD handles;
  `pam_end` writes the last entry over the one it found and gives up the last place, so distinctness is what makes
  the handle leave the array. `TypeCorrect` and `StreamsSurvive` rest on `CaptureInv`: a thread past the lookups that
  did not slip in between another's two has the second pointer, unless there is no libpipewire, and is stopped by
  the test of the stream's state. `ModesAccepted` goes through the cursor modes by their bits, with what was asked for
  remembered beside what was sent.
- **KeyboardBridgeProofs.** `TypeCorrect` and `NoKeyStuck` for any number of injectors: a press on its way is of a key
  its client holds, and a key that is down without a holder has a release on its way. `NoKeyStuck` is
  `NoPhantomKey`, which `KeysAccountedFor` implies in `keyboard_one`. `InSync`, `Refinement`, `KeysCounted` and
  `ModifiersBacked` need `SoleInjector` (one thread injects; with two they fail, section 4). Their invariant says what
  of the event is in the word and at the compositor at each of its steps; `KeysInv` adds what will be down once the
  event is delivered, and that each modifier then has a key behind it.
- **DisplayKeepaliveProofs.** `TypeCorrect`, `CountExact`, `LateOnce`, and `AwakeKept` under `NeverRaises` (no dispatch
  raises; otherwise `ReaderSurvives` of section 4 fails). The flag being up means that a thread is between its test
  and its dispatch, or that the reader is about to start one; a thread past its loop test is the only one that may
  dispatch late, and its next test ends it. `CountExact` is about `max(0, active_clients - 1)`, which would swallow a
  disconnect at zero: the invariant `NeverBelow` says of every prefix of the unread lines that reading it does not
  take the count below zero.
- **PortalProcessProofs.** `TypeCorrect`, `JoinedSafe`, `NamedHasDevices`. The invariant ties what exists, and which
  joined thread is at work, to main's next step; a join is the only way past the steps in which its thread is
  active, and what the thread uses goes later.
- **ScreenSelectionProofs.** `TypeCorrect`, `SameInstance`, `RegionIsShared`, `LandsThere`, for any instances,
  layouts and range of coordinates. The daemon's loop stops at the first directory whose process lives by `os.kill`,
  the picker's at the first by `kill`, at another time. `SharedFirst` is the invariant of `SameInstance`: while what
  was shared lives and nothing started, no directory before its own is a living instance's, since directories that go
  were of living instances and so lie behind it, and a PID that is reused makes none of them a living instance's.
  `ScreenInv` remembers what the region was read from while that reading is fresh. `LandsThere` computes a position
  from the request to its place on the monitor, for each area the compositor may span.
- **HostServiceProofs.** `TypeCorrect`, `StopIsComplete`; `NoSecondDaemon` and `StopIsThorough` of `TurnSpec`: any
  number of units and of shells, of which no two are inside a start or a stop at once (without that `OneDaemon`
  fails, section 4); a `start -f` in progress holds nobody up. From the step that leaves the host behind to the end
  of the daemon a recorded host is dead, since only `Popen` brings one up and a stopping daemon does not come back to
  it; a second SIGTERM re-enters `stop` at its beginning. `Accounted` says which of the daemons that are not lost may
  run at each step of the one busy command: the daemon it works on, the one the PID file names, or nobody. A command
  that is cut off either leaves that account as it was or adds the daemon it had spawned to the lost ones.

Only model-checked are the liveness properties (`PortalAnswers`, `DisplayComesBack`, `KeepaliveEnds`,
`ShutdownCompletes`, `DaemonEnds`), which TLAPS cannot prove under fairness.

## 6. Not modelled

- LibEIHandler's event handlers: its receiver context has no backend, so no event reaches them. Its thread is part
  of `PortalProcess`.
- The seat and keymap set-up of the EIS server and the fallbacks of the keymap's file (anonymous memory, then a
  temporary file): one-time set-up around system calls, with no state that outlives it.
- The choice of the newest host configuration and of components' paths: each reads the file system once.
- Installer, enrolment, status, doctor, packaging and tests: sequential scripts around external tools.
- Reuse of PIDs in `HostService` (it is in `ScreenSelection`): the commands would need a foreign process under the
  recorded PID.
- The caller `RTLD_NEXT` is resolved from in the `dlsym` hook, which depends on how the compiler ends the function.
- The unit of discrete scrolling: libei counts in 120ths of a step, the portal takes the number for steps.
- Contents of messages, keymaps and logs; the other entries of a `SelectSources` call, which are copied.

## 7. Plan

1. Proofs: the properties of section 4 that come close to holding, with the hypothesis that is missing as an
   assumption (`DetachedThreadsAreSafe` while no detached thread is left).
2. A foreign process under the recorded PID in `HostService`.
