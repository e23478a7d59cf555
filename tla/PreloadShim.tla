----------------------------- MODULE PreloadShim -----------------------------
(****************************************************************************)
(* The whole of pam_shim.so as the host has it preloaded: the PAM hooks of   *)
(* PamShim and those for screen capture. dlsym hands out the shim's own      *)
(* pw_stream_update_params, which looks up the real one at its first call    *)
(* and keeps a stream that is streaming from being renegotiated; and a       *)
(* SelectSources call has its cursor mode rewritten.                         *)
(****************************************************************************)
EXTENDS PamShim, FiniteSets

CONSTANT Threads   \* host threads, each with the stream it captures

VARIABLES
    library,   \* where a lookup finds libpipewire's symbols
    real,      \* real_pw_stream_update_params, real_pw_stream_get_state
    entry,     \* what the host calls as pw_stream_update_params
    call,      \* the next step of each thread's call
    slipped,   \* history: threads that found the first pointer without the second
    stream,    \* the state of each thread's stream
    sources    \* the last SelectSources: the mode asked for, the mode sent

capture == <<library, real, entry, call, slipped, stream, sources>>

CallSteps == {"none", "libUpdate", "libState", "nextUpdate", "nextState",
              "guard", "update"}
StreamStates == {"unconnected", "paused", "streaming", "error"}

----------------------------------------------------------------------------
(* The pointers. *)

\* Faulty form of SysDlsym: the lookup goes through the shim's own dlsym.
HookedDlsym(symbol) == IF symbol = "update" THEN "hook" ELSE "libpipewire"

\* The lookup behind the hook, which init_pw_symbols gets by dlvsym.
SysDlsym(symbol) == "libpipewire"

\* dlsym as the host sees it.
Dlsym(symbol) == IF symbol = "update" THEN "hook" ELSE SysDlsym(symbol)

HostLooksUp ==
    /\ entry = "none"
    /\ entry' = Dlsym("update")
    /\ UNCHANGED <<library, real, call, slipped, stream, sources>>

\* One lookup of init_pw_symbols, in the library it opened or, for a pointer
\* still missing, in the objects after the shim.
LookUp(t, from, symbol, place, to) ==
    /\ call[t] = from
    /\ real' = IF library = place /\ real[symbol] = "null"
                 THEN [real EXCEPT ![symbol] = SysDlsym(symbol)] ELSE real
    /\ call' = [call EXCEPT ![t] = to]
    /\ UNCHANGED <<library, entry, slipped, stream, sources>>

----------------------------------------------------------------------------
(* pw_stream_update_params. *)

\* The client asks for another size. The host holds its PipeWire loop's lock,
\* so the stream's state stands still during the call.
UpdateParams(t) ==
    /\ entry # "none" /\ call[t] = "none"
    /\ stream[t] \in {"paused", "streaming"}
    /\ call' = [call EXCEPT ![t] = IF entry # "hook" THEN "update"
                                   ELSE IF real.update = "null" THEN "libUpdate"
                                   ELSE "guard"]
    /\ slipped' = IF real.update # "null" /\ real.state = "null"
                    THEN slipped \cup {t} ELSE slipped \ {t}
    /\ UNCHANGED <<library, real, entry, stream, sources>>

\* Faulty form of Blocked: the states are taken for one another.
BlocksPaused(t) == real.state # "null" /\ stream[t] = "paused"

Blocked(t) == real.state # "null" /\ stream[t] = "streaming"

Guard(t) ==
    /\ call[t] = "guard"
    /\ call' = [call EXCEPT ![t] = IF Blocked(t) THEN "none" ELSE "update"]
    /\ UNCHANGED <<library, real, entry, slipped, stream, sources>>

\* The real update, if there is one; xdph cannot resize a physical monitor's
\* stream, and PipeWire ends it.
CallReal(t) ==
    /\ call[t] = "update"
    /\ stream' = IF stream[t] = "streaming"
                      /\ (entry # "hook" \/ real.update # "null")
                   THEN [stream EXCEPT ![t] = "error"] ELSE stream
    /\ call' = [call EXCEPT ![t] = "none"]
    /\ UNCHANGED <<library, real, entry, slipped, sources>>

\* PipeWire's loop moves a stream, between two calls of its thread.
StreamMoves(t, to) ==
    /\ call[t] = "none"
    /\ <<stream[t], to>> \in {<<"unconnected", "paused">>, <<"paused", "streaming">>,
                              <<"streaming", "paused">>, <<"paused", "unconnected">>,
                              <<"error", "unconnected">>}
    /\ stream' = [stream EXCEPT ![t] = to]
    /\ UNCHANGED <<library, real, entry, call, slipped, sources>>

----------------------------------------------------------------------------
(* SelectSources. A cursor mode is the set of its bits: 1, 2 and 4 stand for  *)
(* hidden, embedded and metadata.                                             *)

Modes == SUBSET {1, 2, 4}

Patched(mode) == IF 4 \in mode THEN {2} ELSE mode

\* Faulty form of Outgoing: the variant with a list of descriptors passes.
OutgoingPlain(route, mode) == IF route = "call" THEN Patched(mode) ELSE mode

\* g_dbus_connection_call and g_dbus_connection_call_with_unix_fd_list.
Outgoing(route, mode) == Patched(mode)

\* The frontend wants one mode, among those xdph advertises.
Available == {1, 2}
FrontendAccepts(mode) == Cardinality(mode) = 1 /\ mode \subseteq Available

SelectSources(route, mode) ==
    /\ sources' = {[asked |-> mode, sent |-> Outgoing(route, mode)]}
    /\ UNCHANGED <<library, real, entry, call, slipped, stream>>

----------------------------------------------------------------------------
CaptureInit ==
    /\ library \in {"opened", "loaded", "missing"}
    /\ real = [update |-> "null", state |-> "null"]
    /\ entry = "none"
    /\ call = [t \in Threads |-> "none"]
    /\ slipped = {}
    /\ stream = [t \in Threads |-> "unconnected"]
    /\ sources = {}

CaptureNext ==
    \/ HostLooksUp
    \/ \E t \in Threads :
         \/ UpdateParams(t)
         \/ LookUp(t, "libUpdate", "update", "opened", "libState")
         \/ LookUp(t, "libState", "state", "opened", "nextUpdate")
         \/ LookUp(t, "nextUpdate", "update", "loaded", "nextState")
         \/ LookUp(t, "nextState", "state", "loaded", "guard")
         \/ Guard(t)
         \/ CallReal(t)
         \/ \E to \in StreamStates : StreamMoves(t, to)
    \/ \E route \in {"call", "call_fd"}, mode \in Modes : SelectSources(route, mode)

ShimInit == Init /\ CaptureInit

ShimNext ==
    \/ Next /\ UNCHANGED capture
    \/ CaptureNext /\ UNCHANGED vars

ShimSpec == ShimInit /\ [][ShimNext]_<<vars, capture>>

----------------------------------------------------------------------------
(* Properties. *)

\* The type invariant of the whole library. The pointers hold libpipewire's
\* functions and never the shim's own, which would call itself for ever.
ShimTypeOK ==
    /\ TypeOK
    /\ library \in {"opened", "loaded", "missing"}
    /\ real \in [update : {"null", "libpipewire"}, state : {"null", "libpipewire"}]
    /\ entry \in {"none", "hook"}
    /\ call \in [Threads -> CallSteps]
    /\ slipped \subseteq Threads
    /\ stream \in [Threads -> StreamStates]
    /\ sources \subseteq [asked : Modes, sent : Modes]

\* "Intercepts pw_stream_update_params to block erroneous renegotiations ...
\* while actively streaming": no stream is lost to one, but for a call that
\* began between the two lookups of another thread.
StreamingSurvives == \A t \in Threads : stream[t] = "error" => t \in slipped

\* Not kept by the code with two threads, the same without the exception.
NoStreamLost == \A t \in Threads : stream[t] # "error"

\* By whichever call it goes, a request that asks for metadata is accepted, one
\* that would be accepted as it is goes out as it is, and no other one is made
\* acceptable: modes 0 and 3 are refused with the shim as they are without it.
SourcesAccepted ==
    \A request \in sources :
        /\ FrontendAccepts(request.sent)
              <=> FrontendAccepts(request.asked) \/ 4 \in request.asked
        /\ FrontendAccepts(request.asked) => request.sent = request.asked
=============================================================================
