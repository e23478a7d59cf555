-------------------------- MODULE PreloadShimProofs --------------------------
(****************************************************************************)
(* The library as the host preloads it, for any set of addresses and of       *)
(* threads and any length of the array. The conjuncts of IInv need each       *)
(* other: pam_end may move the last entry only because no handle has two      *)
(* entries. What is proved of the PAM hooks alone carries over to the whole,  *)
(* whose other hooks leave their state alone.                                 *)
(****************************************************************************)
EXTENDS PreloadShim, FiniteSetTheorems, TLAPS

IInv == /\ TypeOK
        /\ TrackedAreOpenCRD
        /\ OpenCRDAreTracked
        /\ AnswersOwnHandles

\* pam_end's loop stops at the one entry of a tracked handle.
LEMMA FirstIndexFound ==
    ASSUME IInv, NEW h \in Handles, Tracked(h)
    PROVE  /\ FirstIndex(h) \in 0..(n_handles - 1)
           /\ crd_handles[FirstIndex(h)] = h
<1>1. PICK i \in 0..(n_handles - 1) : crd_handles[i] = h
  BY DEF Tracked
<1>2. \A j \in 0..(i - 1) : crd_handles[j] # h
  BY <1>1 DEF IInv, TypeOK, TrackedAreOpenCRD
<1>3. QED
  BY <1>1, <1>2 DEF FirstIndex

\* Initially nothing is open and nothing recorded.
LEMMA InitIInv == Init => IInv
BY ShimAssumption
   DEF Init, IInv, TypeOK, TrackedAreOpenCRD, OpenCRDAreTracked,
       AnswersOwnHandles

\* pam_start appends a handle that was not there.
LEMMA StartStep ==
    ASSUME IInv, NEW h \in Handles, NEW srv \in {"crd", "other"},
           pam_start(h, srv)
    PROVE  IInv'
<1> USE ShimAssumption DEF IInv, pam_start, Records
<1>1. TypeOK'
  BY DEF TypeOK
<1>2. TrackedAreOpenCRD'
  <2>1. CASE srv = "crd" /\ n_handles < Cap
    <3>1. \A i \in 0..(n_handles - 1) :
              crd_handles'[i] = crd_handles[i] /\ crd_handles[i] # h
      BY <2>1 DEF TypeOK, TrackedAreOpenCRD
    <3>2. crd_handles'[n_handles] = h /\ n_handles' = n_handles + 1
      BY <2>1 DEF TypeOK
    <3>3. QED
      BY <3>1, <3>2, <2>1 DEF TypeOK, TrackedAreOpenCRD
  <2>2. CASE ~(srv = "crd" /\ n_handles < Cap)
    BY <2>2 DEF TypeOK, TrackedAreOpenCRD
  <2>3. QED
    BY <2>1, <2>2
<1>3. OpenCRDAreTracked'
  <2>1. CASE srv = "crd" /\ n_handles < Cap
    <3>1. \A i \in 0..(n_handles - 1) : crd_handles'[i] = crd_handles[i]
      BY <2>1 DEF TypeOK
    <3>2. crd_handles'[n_handles] = h /\ n_handles' = n_handles + 1
      BY <2>1 DEF TypeOK
    <3>3. QED
      BY <3>1, <3>2, <2>1 DEF TypeOK, OpenCRDAreTracked, Tracked
  <2>2. CASE ~(srv = "crd" /\ n_handles < Cap)
    BY <2>2 DEF TypeOK, OpenCRDAreTracked, Tracked
  <2>3. QED
    BY <2>1, <2>2
<1>4. AnswersOwnHandles'
  BY DEF TypeOK, AnswersOwnHandles
<1>5. QED
  BY <1>1, <1>2, <1>3, <1>4

\* pam_acct_mgmt finds exactly the open CRD handles that are tracked.
LEMMA AcctStep ==
    ASSUME IInv, NEW h \in Handles, pam_acct_mgmt(h)
    PROVE  IInv'
BY DEF IInv, pam_acct_mgmt, TypeOK, TrackedAreOpenCRD, OpenCRDAreTracked,
       AnswersOwnHandles, Tracked

\* pam_end takes out h and no other.
LEMMA EndStep ==
    ASSUME IInv, NEW h \in Handles, pam_end(h)
    PROVE  IInv'
<1> DEFINE k == FirstIndex(h)
<1> USE ShimAssumption DEF IInv
<1>1. CASE Tracked(h)
  <2>1. k \in 0..(n_handles - 1) /\ crd_handles[k] = h
    BY <1>1, FirstIndexFound
  <2> HIDE DEF k
  <2>2. /\ crd_handles' = [crd_handles EXCEPT ![k] = crd_handles[n_handles - 1]]
        /\ n_handles' = n_handles - 1
        /\ n_handles \in 1..Cap
        /\ service' = [service EXCEPT ![h] = "closed"]
        /\ turnedAway' = turnedAway \ {h}
        /\ answer' = [answer EXCEPT !.handle = IF @ = h THEN NoHandle ELSE @]
    BY <1>1, <2>1 DEF pam_end, Forget, TypeOK, k
  <2>3. TypeOK'
    BY <2>1, <2>2 DEF TypeOK
  <2>4. \A i \in 0..(n_handles' - 1) :
            crd_handles'[i] = IF i = k THEN crd_handles[n_handles - 1]
                                       ELSE crd_handles[i]
    BY <2>1, <2>2 DEF TypeOK
  <2>5. TrackedAreOpenCRD'
    <3>1. \A i \in 0..(n_handles' - 1) : crd_handles'[i] # h
      BY <2>1, <2>2, <2>4 DEF TypeOK, TrackedAreOpenCRD
    <3>2. \A i \in 0..(n_handles' - 1) : service'[crd_handles'[i]] = "crd"
      BY <2>1, <2>2, <2>4, <3>1 DEF TypeOK, TrackedAreOpenCRD
    <3>3. \A i, j \in 0..(n_handles' - 1) :
              crd_handles'[i] = crd_handles'[j] => i = j
      BY <2>1, <2>2, <2>4 DEF TypeOK, TrackedAreOpenCRD
    <3>4. QED
      BY <3>2, <3>3 DEF TrackedAreOpenCRD
  <2>6. OpenCRDAreTracked'
    <3> SUFFICES ASSUME NEW g \in Handles, service'[g] = "crd"
                 PROVE  Tracked(g)' \/ g \in turnedAway'
      BY DEF OpenCRDAreTracked
    <3>1. g # h /\ service[g] = "crd"
      BY <2>2 DEF TypeOK
    <3>2. CASE g \in turnedAway
      BY <2>2, <3>1, <3>2
    <3>3. CASE Tracked(g)
      <4>1. PICK i \in 0..(n_handles - 1) : crd_handles[i] = g
        BY <3>3 DEF Tracked
      <4>2. CASE i = n_handles - 1
        <5>1. k \in 0..(n_handles' - 1)
          BY <2>1, <2>2, <3>1, <4>1, <4>2 DEF TypeOK
        <5>2. crd_handles'[k] = g
          BY <2>4, <4>1, <4>2, <5>1
        <5>3. QED
          BY <5>1, <5>2 DEF Tracked
      <4>3. CASE i # n_handles - 1
        <5>1. i \in 0..(n_handles' - 1) /\ i # k
          BY <2>1, <2>2, <3>1, <4>1, <4>3 DEF TypeOK
        <5>2. crd_handles'[i] = g
          BY <2>4, <4>1, <5>1
        <5>3. QED
          BY <5>1, <5>2 DEF Tracked
      <4>4. QED
        BY <4>2, <4>3
    <3>4. QED
      BY <3>1, <3>2, <3>3 DEF OpenCRDAreTracked
  <2>7. AnswersOwnHandles'
    BY <2>2 DEF TypeOK, AnswersOwnHandles
  <2>8. QED
    BY <2>3, <2>5, <2>6, <2>7
<1>2. CASE ~Tracked(h)
  BY <1>2 DEF pam_end, TypeOK, TrackedAreOpenCRD, OpenCRDAreTracked,
              AnswersOwnHandles, Tracked
<1>3. QED
  BY <1>1, <1>2

\* The inductive invariant holds in every reachable state.
LEMMA Invariance == Spec => []IInv
<1>1. IInv /\ [Next]_vars => IInv'
  <2> SUFFICES ASSUME IInv, [Next]_vars PROVE IInv'
    OBVIOUS
  <2>1. CASE Next
    BY <2>1, StartStep, AcctStep, EndStep DEF Next
  <2>2. CASE UNCHANGED vars
    BY <2>2 DEF vars, IInv, TypeOK, TrackedAreOpenCRD, OpenCRDAreTracked,
                AnswersOwnHandles, Tracked
  <2>3. QED
    BY <2>1, <2>2
<1>2. QED
  BY InitIInv, <1>1, PTL DEF Spec

\* The PAM hooks of the whole library behave as they do alone.
THEOREM HooksApart == ShimSpec => Spec
<1>1. ShimInit => Init
  BY DEF ShimInit
<1>2. [ShimNext]_<<vars, capture>> => [Next]_vars
  BY DEF ShimNext
<1>3. QED
  BY <1>1, <1>2, PTL DEF ShimSpec, Spec

\* No entry is stale or doubled, for any number of handles.
THEOREM NoStaleEntry == ShimSpec => []TrackedAreOpenCRD
BY HooksApart, Invariance, PTL DEF IInv

\* No open CRD handle is lost to the swap with the last entry.
THEOREM NoneLost == ShimSpec => []OpenCRDAreTracked
BY HooksApart, Invariance, PTL DEF IInv

\* The shim answers in libpam's place for CRD handles only.
THEOREM OnlyOwnHandles == ShimSpec => []AnswersOwnHandles
BY HooksApart, Invariance, PTL DEF IInv

----------------------------------------------------------------------------
(* Screen capture. *)

CaptureTypeOK ==
    /\ library \in {"opened", "loaded", "missing"}
    /\ real \in [update : {"null", "libpipewire"}, state : {"null", "libpipewire"}]
    /\ entry \in {"none", "hook"}
    /\ call \in [Threads -> CallSteps]
    /\ slipped \subseteq Threads
    /\ stream \in [Threads -> StreamStates]

\* The host calls nothing before it has looked it up.
Entered == \A t \in Threads : call[t] # "none" => entry = "hook"

\* A thread that looked for both pointers itself has the second one where
\* there is a libpipewire; one that did not, found it, or slipped.
StateFound ==
    /\ library = "missing" => real.update = "null" /\ real.state = "null"
    /\ \A t \in Threads :
          /\ call[t] \in {"nextUpdate", "nextState"} /\ library = "opened"
             => real.state # "null"
          /\ call[t] \in {"guard", "update"} /\ library # "missing" /\ t \notin slipped
             => real.state # "null"

\* The real update is reached by a streaming thread only past the test.
Spared ==
    \A t \in Threads :
        call[t] = "update" /\ stream[t] = "streaming"
        => t \in slipped \/ library = "missing"

CaptureInv ==
    /\ CaptureTypeOK /\ Entered /\ StateFound /\ Spared /\ StreamingSurvives
    /\ sources \subseteq [asked : Modes, sent : Modes] /\ SourcesAccepted

\* A pointer once found stays.
LEMMA LookUpFinds ==
    ASSUME CaptureInv, NEW t \in Threads, NEW from \in CallSteps,
           NEW symbol \in {"update", "state"}, NEW place \in {"opened", "loaded"},
           NEW to \in CallSteps, LookUp(t, from, symbol, place, to)
    PROVE  /\ CaptureTypeOK'
           /\ library' = library /\ entry' = entry /\ slipped' = slipped /\ stream' = stream
           /\ sources' = sources
           /\ library = "missing" => real' = real
           /\ library = place => real'[symbol] # "null"
           /\ real.state # "null" => real'.state # "null"
           /\ call[t] = from /\ call' = [call EXCEPT ![t] = to]
BY DEF LookUp, SysDlsym, CaptureInv, CaptureTypeOK

\* The first three lookups lead to the next; none of them reaches the test.
LEMMA EarlyLookUp ==
    ASSUME CaptureInv, NEW t \in Threads,
           \/ LookUp(t, "libUpdate", "update", "opened", "libState")
           \/ LookUp(t, "libState", "state", "opened", "nextUpdate")
           \/ LookUp(t, "nextUpdate", "update", "loaded", "nextState")
    PROVE  CaptureInv'
<1>1. CASE LookUp(t, "libUpdate", "update", "opened", "libState")
  <2>1. /\ CaptureTypeOK'
        /\ library' = library /\ entry' = entry /\ slipped' = slipped /\ stream' = stream
        /\ sources' = sources
        /\ library = "missing" => real' = real
        /\ real.state # "null" => real'.state # "null"
        /\ call[t] = "libUpdate" /\ call' = [call EXCEPT ![t] = "libState"]
    BY <1>1, LookUpFinds DEF CallSteps
  <2>2. QED
    BY <2>1 DEF CaptureInv, CaptureTypeOK, Entered, StateFound, Spared,
           StreamingSurvives, SourcesAccepted
<1>2. CASE LookUp(t, "libState", "state", "opened", "nextUpdate")
  <2>1. /\ CaptureTypeOK'
        /\ library' = library /\ entry' = entry /\ slipped' = slipped /\ stream' = stream
        /\ sources' = sources
        /\ library = "missing" => real' = real
        /\ library = "opened" => real'["state"] # "null"
        /\ real.state # "null" => real'.state # "null"
        /\ call[t] = "libState" /\ call' = [call EXCEPT ![t] = "nextUpdate"]
    BY <1>2, LookUpFinds DEF CallSteps
  <2>2. QED
    BY <2>1 DEF CaptureInv, CaptureTypeOK, Entered, StateFound, Spared,
           StreamingSurvives, SourcesAccepted
<1>3. CASE LookUp(t, "nextUpdate", "update", "loaded", "nextState")
  <2>1. /\ CaptureTypeOK'
        /\ library' = library /\ entry' = entry /\ slipped' = slipped /\ stream' = stream
        /\ sources' = sources
        /\ library = "missing" => real' = real
        /\ real.state # "null" => real'.state # "null"
        /\ call[t] = "nextUpdate" /\ call' = [call EXCEPT ![t] = "nextState"]
    BY <1>3, LookUpFinds DEF CallSteps
  <2>2. QED
    BY <2>1 DEF CaptureInv, CaptureTypeOK, Entered, StateFound, Spared,
           StreamingSurvives, SourcesAccepted
<1>4. QED
  BY <1>1, <1>2, <1>3

\* The last lookup has found the state's pointer wherever there is one.
LEMMA LastLookUp ==
    ASSUME CaptureInv, NEW t \in Threads,
           LookUp(t, "nextState", "state", "loaded", "guard")
    PROVE  CaptureInv'
<1>1. /\ CaptureTypeOK'
      /\ library' = library /\ entry' = entry /\ slipped' = slipped /\ stream' = stream
      /\ sources' = sources
      /\ library = "missing" => real' = real
      /\ library = "loaded" => real'["state"] # "null"
      /\ real.state # "null" => real'.state # "null"
      /\ call[t] = "nextState" /\ call' = [call EXCEPT ![t] = "guard"]
  BY LookUpFinds DEF CallSteps
<1>2. library = "opened" => real.state # "null"
  BY <1>1 DEF CaptureInv, StateFound
<1>3. library # "missing" => real'.state # "null"
  BY <1>1, <1>2 DEF CaptureInv, CaptureTypeOK
<1>4. QED
  BY <1>1, <1>3 DEF CaptureInv, CaptureTypeOK, Entered, StateFound, Spared,
           StreamingSurvives, SourcesAccepted

\* A call that begins, is tested, or ends; a stream that moves by itself.
LEMMA CallStep ==
    ASSUME CaptureInv, NEW t \in Threads,
           \/ UpdateParams(t) \/ Guard(t) \/ CallReal(t)
           \/ \E to \in StreamStates : StreamMoves(t, to)
    PROVE  CaptureInv'
<1> USE DEF CaptureInv, CaptureTypeOK, CallSteps, StreamStates
<1>1. CASE UpdateParams(t)
  <2>1. /\ CaptureTypeOK'
        /\ UNCHANGED <<library, real, entry, stream, sources>>
        /\ entry = "hook" /\ stream[t] # "error"
        /\ call' = [call EXCEPT ![t] = IF real.update = "null" THEN "libUpdate"
                                                              ELSE "guard"]
        /\ slipped' = IF real.update # "null" /\ real.state = "null"
                        THEN slipped \cup {t} ELSE slipped \ {t}
    BY <1>1 DEF UpdateParams
  <2>2. QED
    BY <2>1 DEF Entered, StateFound, Spared, StreamingSurvives, SourcesAccepted
<1>2. CASE Guard(t)
  BY <1>2 DEF Guard, Blocked, Entered, StateFound, Spared, StreamingSurvives,
           SourcesAccepted
<1>3. CASE CallReal(t)
  <2>1. stream[t] = "streaming" /\ real.update # "null" => t \in slipped
    BY <1>3 DEF CallReal, Entered, StateFound, Spared
  <2>2. CaptureTypeOK' /\ Entered' /\ StateFound'
    BY <1>3 DEF CallReal, Entered, StateFound
  <2>3. \/ stream' = stream
        \/ t \in slipped /\ stream' = [stream EXCEPT ![t] = "error"]
    BY <1>3, <2>1 DEF CallReal, Entered
  <2>4. /\ UNCHANGED <<library, slipped, sources>>
        /\ call' = [call EXCEPT ![t] = "none"]
    BY <1>3 DEF CallReal
  <2>5. QED
    BY <2>2, <2>3, <2>4 DEF Spared, StreamingSurvives, SourcesAccepted
<1>4. ASSUME NEW to \in StreamStates, StreamMoves(t, to) PROVE CaptureInv'
  BY <1>4 DEF StreamMoves, Entered, StateFound, Spared, StreamingSurvives, SourcesAccepted
<1>5. QED
  BY <1>1, <1>2, <1>3, <1>4

\* A mode with the metadata bit becomes one that xdph advertises, and was none;
\* any other goes out as it is.
LEMMA PatchedAccepted ==
    ASSUME NEW mode \in Modes, NEW route
    PROVE  LET sent == Outgoing(route, mode) IN
             /\ sent \in Modes
             /\ FrontendAccepts(sent) <=> FrontendAccepts(mode) \/ 4 \in mode
             /\ FrontendAccepts(mode) => sent = mode
<1>1. CASE 4 \in mode
  <2>1. ~FrontendAccepts(mode)
    BY <1>1 DEF FrontendAccepts, Available
  <2>2. Outgoing(route, mode) = {2}
    BY <1>1 DEF Outgoing, Patched
  <2>3. Cardinality({2}) = 1
    BY FS_Singleton
  <2>4. {2} \in Modes /\ FrontendAccepts({2})
    BY <2>3 DEF Modes, FrontendAccepts, Available
  <2>5. QED
    BY <1>1, <2>1, <2>2, <2>4
<1>2. CASE 4 \notin mode
  <2>1. Outgoing(route, mode) = mode
    BY <1>2 DEF Outgoing, Patched
  <2>2. QED
    BY <1>2, <2>1
<1>3. QED
  BY <1>1, <1>2

LEMMA CaptureStep ==
    ASSUME CaptureInv, CaptureNext \/ UNCHANGED capture PROVE CaptureInv'
<1> USE DEF CaptureInv
<1>1. CASE HostLooksUp
  BY <1>1 DEF HostLooksUp, Dlsym, CaptureTypeOK, Entered, StateFound, Spared,
           StreamingSurvives, SourcesAccepted
<1>2. ASSUME NEW route, NEW mode \in Modes, SelectSources(route, mode)
      PROVE  CaptureInv'
  <2>1. /\ sources' = {[asked |-> mode, sent |-> Outgoing(route, mode)]}
        /\ UNCHANGED <<library, real, entry, call, slipped, stream>>
    BY <1>2 DEF SelectSources
  <2>2. sources' \subseteq [asked : Modes, sent : Modes] /\ SourcesAccepted'
    BY <2>1, PatchedAccepted DEF SourcesAccepted
  <2>3. QED
    BY <2>1, <2>2 DEF CaptureTypeOK, Entered, StateFound, Spared, StreamingSurvives
<1>3. CASE UNCHANGED capture
  BY <1>3 DEF capture, CaptureTypeOK, Entered, StateFound, Spared, StreamingSurvives,
           SourcesAccepted
<1>4. QED
  BY <1>1, <1>2, <1>3, EarlyLookUp, LastLookUp, CallStep DEF CaptureNext

LEMMA Captured == ShimSpec => []CaptureInv
<1>1. ShimInit => CaptureInv
  BY DEF ShimInit, CaptureInit, CaptureInv, CaptureTypeOK, Entered, StateFound, Spared,
         StreamingSurvives, SourcesAccepted, CallSteps, StreamStates
<1>2. CaptureInv /\ [ShimNext]_<<vars, capture>> => CaptureInv'
  BY CaptureStep DEF ShimNext
<1>3. QED
  BY <1>1, <1>2, PTL DEF ShimSpec

\* n_handles stays within crd_handles, whatever its length, and the pointers
\* looked up are never the shim's own functions.
THEOREM TypeCorrect == ShimSpec => []ShimTypeOK
<1>1. IInv /\ CaptureInv => ShimTypeOK
  BY DEF IInv, CaptureInv, CaptureTypeOK, ShimTypeOK
<1>2. QED
  BY <1>1, HooksApart, Invariance, Captured, PTL

\* pw_stream_update_params of the shim costs no stream, for any number of
\* threads, but of a thread whose call began between another's two lookups.
THEOREM StreamsSurvive == ShimSpec => []StreamingSurvives
BY Captured, PTL DEF CaptureInv

\* By either call of GDBus: metadata is asked for with success, a mode that is
\* acceptable is left as it is, and one that is not stays so.
THEOREM ModesAccepted == ShimSpec => []SourcesAccepted
<1>1. CaptureInv => SourcesAccepted
  BY DEF CaptureInv, SourcesAccepted
<1>2. QED
  BY <1>1, Captured, PTL
=============================================================================
