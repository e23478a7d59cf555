----------------------- MODULE PickerHandshakeProofs -----------------------
(****************************************************************************)
(* The handshake for any set of sessions and applications: the marker never *)
(* outlives the handshake of the session that wrote it, it is used as        *)
(* SelectionGrant says, so that requests served without asking never         *)
(* outnumber the markers, and what reaches xdph of a session comes in the    *)
(* order of its calls.                                                       *)
(****************************************************************************)
EXTENDS PickerHandshake, FiniteSetTheorems, SequenceTheorems, TLAPS

\* The handler the event loop is in and the frontend's view of that session.
CallPhase ==
    /\ portal.pc \in PortalCalls => portal.sess \in Sessions
    /\ portal.pc = "CreateSession" => phase[portal.sess] = "creating"
    /\ portal.pc = "Start" => phase[portal.sess] = "starting"
    /\ portal.pc = "Close" => phase[portal.sess] = "closing"

\* Without a runtime directory there is no marker file.
NoDirNoMarker == ~RuntimeDir => marker = None

\* MarkerNotOutlived is not inductive alone: a step of Start or Close ends the
\* handshake of the session the event loop is serving, and where there is no
\* runtime directory it is the absence of a marker that saves it.
IInv == TypeOK /\ CallPhase /\ NoDirNoMarker /\ MarkerNotOutlived

\* A call of a handler leaves the portal, the bus and the history well typed.
LEMMA CallXdphTypes ==
    ASSUME NEW op \in PortalCalls, NEW s \in Sessions, NEW sent \in BOOLEAN,
           xdphQ \in Seq(Message), unsent \subseteq (Calls \X Sessions),
           CallXdph(op, s, sent)
    PROVE  /\ portal' \in EventLoop
           /\ xdphQ' \in Seq(Message)
           /\ unsent' \subseteq (Calls \X Sessions)
<1> DEFINE m == [op |-> op, who |-> s]
<1>1. m \in Message
  BY DEF Message, Calls, PortalCalls, Requesters
<1>2. Append(xdphQ, m) \in Seq(Message)
  BY <1>1, AppendProperties
<1>3. portal' \in EventLoop
  BY DEF CallXdph, EventLoop, Replies
<1>4. <<op, s>> \in Calls \X Sessions
  BY DEF Calls, PortalCalls
<1>5. QED
  BY <1>2, <1>3, <1>4 DEF CallXdph

\* The invariant holds initially.
LEMMA InitIInv == Init => IInv
BY HandshakeAssumption
   DEF Init, IInv, TypeOK, CallPhase, NoDirNoMarker, MarkerNotOutlived, Idle,
       NoPicker, Requesters, PortalCalls, Phases, Replies, EventLoop, Outcomes

\* Every step preserves the types.
LEMMA TypeStep == ASSUME IInv, [Next]_vars PROVE TypeOK'
<1> USE HandshakeAssumption DEF IInv, TypeOK
<1>1. ASSUME NEW s \in Sessions, PortalCreateSession(s) PROVE TypeOK'
  <2>1. PICK sent \in BOOLEAN : CallXdph("CreateSession", s, sent)
    BY <1>1 DEF PortalCreateSession
  <2>2. portal' \in EventLoop /\ xdphQ' \in Seq(Message)
        /\ unsent' \subseteq (Calls \X Sessions)
    BY <2>1, CallXdphTypes DEF PortalCalls
  <2>3. QED
    BY <1>1, <2>2 DEF PortalCreateSession, WrittenMarker, Phases
<1>2. ASSUME NEW s \in Sessions, PortalStart(s) PROVE TypeOK'
  <2>1. PICK sent \in BOOLEAN : CallXdph("Start", s, sent)
    BY <1>2 DEF PortalStart
  <2>2. portal' \in EventLoop /\ xdphQ' \in Seq(Message)
        /\ unsent' \subseteq (Calls \X Sessions)
    BY <2>1, CallXdphTypes DEF PortalCalls
  <2>3. QED
    BY <1>2, <2>2 DEF PortalStart, Phases
<1>3. ASSUME NEW s \in Sessions, PortalClose(s) PROVE TypeOK'
  <2>1. PICK sent \in BOOLEAN : CallXdph("Close", s, sent)
    BY <1>3 DEF PortalClose, CloseSends
  <2>2. portal' \in EventLoop /\ xdphQ' \in Seq(Message)
        /\ unsent' \subseteq (Calls \X Sessions)
    BY <2>1, CallXdphTypes DEF PortalCalls
  <2>3. QED
    BY <1>3, <2>2 DEF PortalClose, Phases
<1>4. ASSUME NEW s \in Sessions, FrontendSelectSources(s) PROVE TypeOK'
  <2>1. [op |-> "SelectSources", who |-> s] \in Message
    BY DEF Message, Calls, Requesters
  <2>2. xdphQ' \in Seq(Message)
    BY <1>4, <2>1, AppendProperties DEF FrontendSelectSources
  <2>3. QED
    BY <1>4, <2>2 DEF FrontendSelectSources, Phases
<1>5. ASSUME NEW s \in Sessions, FrontendDropsSession(s) PROVE TypeOK'
  BY <1>5 DEF FrontendDropsSession, Phases
<1>6. ASSUME NEW a \in Apps, AppSelectSources(a) PROVE TypeOK'
  <2>1. [op |-> "SelectSources", who |-> a] \in Message
    BY DEF Message, Calls, Requesters
  <2>2. xdphQ' \in Seq(Message)
    BY <1>6, <2>1, AppendProperties DEF AppSelectSources
  <2>3. QED
    BY <1>6, <2>2 DEF AppSelectSources, Outcomes
<1>7. ASSUME NEW s \in Sessions, PortalCreateReturn(s) PROVE TypeOK'
  BY <1>7 DEF PortalCreateReturn, Idle, EventLoop, Replies, Phases
<1>8. ASSUME NEW s \in Sessions, PortalStartReturn(s) PROVE TypeOK'
  BY <1>8 DEF PortalStartReturn, MarkerAfterStart, ClearedMarker, StartPhase,
              Disturbs, Idle, EventLoop, Replies, Phases
<1>9. ASSUME NEW s \in Sessions, PortalCloseReturn(s) PROVE TypeOK'
  BY <1>9 DEF PortalCloseReturn, MarkerAfterClose, ClearedMarker, Disturbs,
              Idle, EventLoop, Replies, Phases
<1>10. CASE PortalTimeout
  BY <1>10 DEF PortalTimeout, EventLoop, Replies
<1>11. CASE PortalExit
  BY <1>11 DEF PortalExit, Idle, EventLoop, Replies, Phases
<1>12. CASE PortalActivate
  BY <1>12 DEF PortalActivate, Idle, EventLoop, Replies
<1>13. CASE XdphCreateSession
  <2>1. Head(xdphQ) \in Message /\ xdphQ' \in Seq(Message)
    BY <1>13, HeadTailProperties DEF XdphCreateSession, XdphTakes
  <2>2. QED
    BY <1>13, <2>1 DEF XdphCreateSession, XdphReplies, Message, EventLoop,
                       Replies
<1>14. CASE XdphSelectSources
  <2>1. Head(xdphQ) \in Message /\ xdphQ' \in Seq(Message)
    BY <1>14, HeadTailProperties DEF XdphSelectSources, XdphTakes
  <2>2. Head(xdphQ).who \in Requesters
    BY <2>1 DEF Message
  <2>3. phase' \in [Sessions -> Phases]
    BY <1>14 DEF XdphSelectSources, Phases
  <2>4. /\ picker' \in [pc : {"idle", "check", "consume", "share"},
                        who : Requesters \cup {None}]
        /\ selection' \in [Requesters -> Outcomes]
    <3>1. picker' \in {picker, [pc |-> "check", who |-> Head(xdphQ).who]}
          /\ selection' \in {selection, [selection EXCEPT ![Head(xdphQ).who] = "refused"]}
      BY <1>14 DEF XdphSelectSources
    <3> DEFINE r == Head(xdphQ).who
    <3> HIDE DEF r
    <3>2. picker' \in {picker, [pc |-> "check", who |-> r]} /\ r \in Requesters
      BY <2>2, <3>1 DEF r
    <3>3. picker' \in [pc : {"idle", "check", "consume", "share"},
                      who : Requesters \cup {None}]
      BY <3>2
    <3>4. selection' = selection \/ selection' = [selection EXCEPT ![r] = "refused"]
      BY <3>1 DEF r
    <3>5. selection' \in [Requesters -> Outcomes]
      BY <3>2, <3>4 DEF Outcomes
    <3>6. QED
      BY <3>3, <3>5
  <2>5. QED
    BY <1>14, <2>1, <2>3, <2>4 DEF XdphSelectSources
<1>15. CASE XdphStart
  <2>1. Head(xdphQ) \in Message /\ xdphQ' \in Seq(Message)
    BY <1>15, HeadTailProperties DEF XdphStart, XdphTakes
  <2>2. portal' \in EventLoop
    BY <1>15 DEF XdphStart, XdphReplies, EventLoop, Replies
  <2>3. QED
    BY <1>15, <2>1, <2>2 DEF XdphStart
<1>16. CASE XdphClose
  <2>1. Head(xdphQ) \in Message /\ xdphQ' \in Seq(Message)
    BY <1>16, HeadTailProperties DEF XdphClose, XdphTakes
  <2>2. portal' \in EventLoop
    BY <1>16 DEF XdphClose, XdphReplies, EventLoop, Replies
  <2>3. QED
    BY <1>16, <2>1, <2>2 DEF XdphClose
<1>17. CASE PickerCheck
  BY <1>17 DEF PickerCheck, PickerStep
<1>18. CASE PickerConsume
  BY <1>18 DEF PickerConsume, PickerEnds, PickerStep, MarkerAfterUse, NoPicker,
               Disturbs, Phases, Outcomes
<1>19. CASE PickerShare
  <2>1. PICK outcome \in {"interactive", "refused"} :
            PickerEnds("share", outcome)
    BY <1>19 DEF PickerShare
  <2>2. phase' \in [Sessions -> Phases]
    BY <2>1 DEF PickerEnds, Phases
  <2>3. selection' \in [Requesters -> Outcomes]
    BY <2>1 DEF PickerEnds, Outcomes
  <2>4. picker' = NoPicker
    BY <2>1 DEF PickerEnds, PickerStep
  <2>5. QED
    BY <1>19, <2>2, <2>3, <2>4 DEF PickerShare, NoPicker
<1>20. CASE Tick
  BY <1>20 DEF Tick
<1>21. CASE UNCHANGED vars
  BY <1>21 DEF vars
<1>22. QED
  BY <1>1, <1>2, <1>3, <1>4, <1>5, <1>6, <1>7, <1>8, <1>9, <1>10, <1>11,
     <1>12, <1>13, <1>14, <1>15, <1>16, <1>17, <1>18, <1>19, <1>20, <1>21
     DEF Next, PortalReturns

\* Every step keeps the event loop and the frontend's view in agreement: only
\* the event loop moves a session out of a call it serves.
LEMMA CallPhaseStep == ASSUME IInv, [Next]_vars PROVE CallPhase'
<1> USE HandshakeAssumption DEF IInv, TypeOK, CallPhase, PortalCalls
<1>1. ASSUME NEW s \in Sessions,
             PortalCreateSession(s) \/ PortalStart(s) \/ PortalClose(s)
      PROVE  CallPhase'
  BY <1>1 DEF PortalCreateSession, PortalStart, PortalClose, CallXdph
<1>2. ASSUME NEW s \in Sessions,
             FrontendSelectSources(s) \/ FrontendDropsSession(s)
      PROVE  CallPhase'
  BY <1>2 DEF FrontendSelectSources, FrontendDropsSession
<1>3. CASE PortalReturns \/ PortalExit \/ PortalActivate
  BY <1>3 DEF PortalReturns, PortalCreateReturn, PortalStartReturn,
              PortalCloseReturn, PortalExit, PortalActivate, Idle
<1>4. CASE PortalTimeout
  BY <1>4 DEF PortalTimeout, EventLoop
<1>5. CASE XdphCreateSession \/ XdphStart \/ XdphClose
  BY <1>5 DEF XdphCreateSession, XdphStart, XdphClose, XdphReplies, EventLoop
<1>6. CASE XdphSelectSources
  BY <1>6 DEF XdphSelectSources
<1>7. CASE PickerConsume \/ PickerShare
  BY <1>7 DEF PickerConsume, PickerShare, PickerEnds
<1>8. CASE (\E a \in Apps : AppSelectSources(a)) \/ PickerCheck \/ Tick
           \/ UNCHANGED vars
  BY <1>8 DEF AppSelectSources, PickerCheck, Tick, vars
<1>9. QED
  BY <1>1, <1>2, <1>3, <1>4, <1>5, <1>6, <1>7, <1>8 DEF Next

\* Only CreateSession writes the marker, and only with a runtime directory.
LEMMA NoDirStep == ASSUME IInv, [Next]_vars PROVE NoDirNoMarker'
<1> USE DEF IInv, NoDirNoMarker
<1>1. ASSUME NEW s \in Sessions, PortalCreateSession(s) PROVE NoDirNoMarker'
  BY <1>1 DEF PortalCreateSession, WrittenMarker
<1>2. CASE PortalReturns
  BY <1>2 DEF PortalReturns, PortalCreateReturn, PortalStartReturn,
              PortalCloseReturn, MarkerAfterStart, MarkerAfterClose,
              ClearedMarker
<1>3. CASE PickerConsume
  BY <1>3 DEF PickerConsume, MarkerAfterUse
<1>4. CASE UNCHANGED marker
  BY <1>4
<1>5. QED
  BY <1>1, <1>2, <1>3, <1>4
     DEF Next, PortalStart, PortalClose, FrontendSelectSources,
         FrontendDropsSession, AppSelectSources, PortalTimeout, PortalExit,
         PortalActivate, XdphCreateSession, XdphSelectSources, XdphStart,
         XdphClose, PickerCheck, PickerShare, Tick, vars

\* A step that ends a session's handshake removes the marker it may have left.
LEMMA MarkerStep == ASSUME IInv, [Next]_vars PROVE MarkerNotOutlived'
<1> USE HandshakeAssumption DEF IInv, TypeOK, MarkerNotOutlived
<1>1. ASSUME NEW s \in Sessions, PortalCreateSession(s)
      PROVE  MarkerNotOutlived'
  BY <1>1 DEF PortalCreateSession, WrittenMarker
<1>2. ASSUME NEW s \in Sessions,
             \/ PortalStart(s) \/ PortalClose(s) \/ PortalCreateReturn(s)
             \/ FrontendSelectSources(s) \/ FrontendDropsSession(s)
      PROVE  MarkerNotOutlived'
  BY <1>2 DEF PortalStart, PortalClose, PortalCreateReturn,
              FrontendSelectSources, FrontendDropsSession
<1>3. ASSUME NEW s \in Sessions, PortalStartReturn(s) \/ PortalCloseReturn(s)
      PROVE  MarkerNotOutlived'
  <2>1. marker' = None
    BY <1>3 DEF NoDirNoMarker, PortalStartReturn, PortalCloseReturn,
                MarkerAfterStart, MarkerAfterClose, ClearedMarker
  <2>2. QED
    BY <2>1
<1>4. CASE PortalExit
  BY <1>4 DEF PortalExit
<1>5. CASE XdphSelectSources
  BY <1>5 DEF XdphSelectSources
<1>6. CASE PickerConsume
  BY <1>6 DEF PickerConsume, MarkerAfterUse
<1>7. CASE PickerShare
  BY <1>7 DEF PickerShare, PickerEnds
<1>8. CASE UNCHANGED <<phase, marker>>
  BY <1>8
<1>9. QED
  BY <1>1, <1>2, <1>3, <1>4, <1>5, <1>6, <1>7, <1>8
     DEF Next, PortalReturns, AppSelectSources, PortalTimeout, PortalActivate,
         XdphCreateSession, XdphStart, XdphClose, PickerCheck, Tick, vars

\* The inductive invariant holds in every reachable state.
LEMMA Invariance == Spec => []IInv
<1>1. IInv /\ [Next]_vars => IInv'
  BY TypeStep, CallPhaseStep, NoDirStep, MarkerStep DEF IInv
<1>2. QED
  BY InitIInv, <1>1, PTL DEF Spec

\* Type correctness of the handshake.
THEOREM TypeCorrect == Spec => []TypeOK
BY Invariance, PTL DEF IInv

\* The marker never names a session whose Start returned or that is closed:
\* the third rule of the handshake in ARCHITECTURE.md, for any number of
\* sessions and applications and however their calls interleave.
THEOREM MarkerRemoved == Spec => []MarkerNotOutlived
BY Invariance, PTL DEF IInv

----------------------------------------------------------------------------
(* The handshake implements SelectionGrant. What it takes is that a requester *)
(* asks once: an answer is then never overwritten, and a request that is being *)
(* served without asking stays so.                                            *)

Ask(r) == [op |-> "SelectSources", who |-> r]

Waiting(r) == \E n \in 1 .. Len(xdphQ) : xdphQ[n] = Ask(r)

BeingServed(r) == picker.pc # "idle" /\ picker.who = r

Unasked(r) ==
    \/ r \in Sessions /\ phase[r] \in {"none", "creating", "created"}
    \/ r \in Apps /\ selection[r] = "none"

Distinct ==
    \A m, n \in 1 .. Len(xdphQ) :
        xdphQ[m] = xdphQ[n] /\ xdphQ[m].op = "SelectSources" => m = n

\* A request is in one place at a time, and not yet answered there.
InOnePlace(r) ==
    /\ Waiting(r) \/ BeingServed(r) => /\ selection[r] \in {"none", "pending"}
                                       /\ ~Unasked(r)
    /\ ~(Waiting(r) /\ BeingServed(r))
    /\ Unasked(r) => selection[r] = "none"

AskedOnce ==
    /\ picker.pc # "idle" => picker.who \in Requesters
    /\ Distinct
    /\ \A r \in Requesters : InOnePlace(r)
    /\ \A s \in Sessions : phase[s] = "none" => s \notin marked

LEMMA QueueGrows ==
    ASSUME xdphQ \in Seq(Message), NEW m \in Message, xdphQ' = Append(xdphQ, m)
    PROVE  /\ \A r : Waiting(r)' => Waiting(r) \/ m = Ask(r)
           /\ Distinct /\ (m.op = "SelectSources" => ~Waiting(m.who)) => Distinct'
<1>1. /\ Len(xdphQ') = Len(xdphQ) + 1 /\ Len(xdphQ) \in Nat
      /\ \A n \in 1 .. Len(xdphQ) : xdphQ'[n] = xdphQ[n]
      /\ xdphQ'[Len(xdphQ) + 1] = m
  BY AppendProperties, LenProperties
<1>2. \A n \in 1 .. Len(xdphQ') : n \in 1 .. Len(xdphQ) \/ n = Len(xdphQ) + 1
  BY <1>1
<1>3. \A r : Waiting(r)' => Waiting(r) \/ m = Ask(r)
  BY <1>1, <1>2 DEF Waiting, Ask
<1>4. ASSUME Distinct, m.op = "SelectSources" => ~Waiting(m.who) PROVE Distinct'
  <2>1. m.op = "SelectSources" => m = Ask(m.who)
    BY DEF Message, Ask
  <2>2. m.op = "SelectSources" => \A n \in 1 .. Len(xdphQ) : xdphQ[n] # m
    BY <1>4, <2>1 DEF Waiting
  <2>3. QED
    BY <1>1, <1>2, <1>4, <2>2 DEF Distinct
<1>5. QED
  BY <1>3, <1>4

LEMMA QueueShrinks ==
    ASSUME xdphQ \in Seq(Message), xdphQ # <<>>, xdphQ' = Tail(xdphQ), Distinct
    PROVE  /\ Distinct'
           /\ \A r : Waiting(r)' => Waiting(r)
           /\ \A r : Head(xdphQ) = Ask(r) => Waiting(r) /\ ~Waiting(r)'
<1>1. /\ Len(xdphQ') = Len(xdphQ) - 1 /\ Len(xdphQ) \in Nat \ {0}
      /\ \A n \in 1 .. Len(xdphQ') : xdphQ'[n] = xdphQ[n + 1]
  BY HeadTailProperties, EmptySeq
<1>2. \A n \in 1 .. Len(xdphQ') : n + 1 \in 1 .. Len(xdphQ) /\ n + 1 # 1 /\ n \in Int
  BY <1>1
<1>3. Head(xdphQ) = xdphQ[1] /\ 1 \in 1 .. Len(xdphQ)
  BY <1>1
<1>4. Distinct'
  <2>1. SUFFICES ASSUME NEW m \in 1 .. Len(xdphQ'), NEW n \in 1 .. Len(xdphQ'),
                        xdphQ'[m] = xdphQ'[n], xdphQ'[m].op = "SelectSources"
                 PROVE  m = n
    BY DEF Distinct
  <2>2. m + 1 = n + 1
    BY <1>1, <1>2, <2>1 DEF Distinct
  <2>3. QED
    BY <1>2, <2>2
<1>5. \A r : Waiting(r)' => Waiting(r)
  BY <1>1, <1>2 DEF Waiting, Ask
<1>6. ASSUME NEW r, Head(xdphQ) = Ask(r) PROVE Waiting(r) /\ ~Waiting(r)'
  <2>1. Waiting(r)
    BY <1>3, <1>6 DEF Waiting
  <2>2. ASSUME NEW n \in 1 .. Len(xdphQ'), xdphQ'[n] = Ask(r) PROVE FALSE
    <3>1. xdphQ[n + 1] = xdphQ[1] /\ xdphQ[n + 1].op = "SelectSources"
      BY <1>1, <1>3, <1>6, <2>2 DEF Ask
    <3>2. QED
      BY <1>2, <1>3, <3>1 DEF Distinct
  <2>3. QED
    BY <2>1, <2>2 DEF Waiting, Ask
<1>7. QED
  BY <1>4, <1>5, <1>6

\* The steps that ask for nothing and answer nothing.
LEMMA AskedKept ==
    ASSUME AskedOnce, Distinct', \A r : Waiting(r)' => Waiting(r),
           picker' = picker, selection' = selection,
           \A s \in Sessions :
              phase'[s] \in {"none", "creating", "created"} =>
                 phase[s] \in {"none", "creating", "created"},
           \A s \in Sessions :
              phase'[s] = "none" => phase[s] = "none" /\ (s \in marked' => s \in marked)
    PROVE  AskedOnce'
<1>1. \A r \in Requesters : Unasked(r)' => Unasked(r)
  BY DEF Unasked
<1>2. \A r \in Requesters : BeingServed(r)' => BeingServed(r)
  BY DEF BeingServed
<1>3. \A r \in Requesters : InOnePlace(r)'
  BY <1>1, <1>2 DEF AskedOnce, InOnePlace
<1>4. QED
  BY <1>3 DEF AskedOnce

\* A requester that asks now has not asked before.
LEMMA AskedNow ==
    ASSUME IInv, AskedOnce, NEW r \in Requesters, Unasked(r),
           xdphQ' = Append(xdphQ, Ask(r)), picker' = picker, ~Unasked(r)',
           selection'[r] \in {"none", "pending"},
           \A x \in Requesters \ {r} :
              selection'[x] = selection[x] /\ (Unasked(x)' => Unasked(x)),
           \A s \in Sessions :
              phase'[s] = "none" => phase[s] = "none" /\ (s \in marked' => s \in marked)
    PROVE  AskedOnce'
<1>1. ~Waiting(r) /\ ~BeingServed(r)
  BY DEF AskedOnce, InOnePlace
<1>2. Ask(r) \in Message /\ xdphQ \in Seq(Message)
  BY DEF Ask, Message, Calls, IInv, TypeOK
<1>3. Distinct' /\ \A x : Waiting(x)' => Waiting(x) \/ Ask(r) = Ask(x)
  BY <1>1, <1>2, QueueGrows DEF AskedOnce, Ask
<1>4. ASSUME NEW x \in Requesters PROVE InOnePlace(x)'
  <2>1. BeingServed(x)' <=> BeingServed(x)
    BY DEF BeingServed
  <2>2. CASE x = r
    BY <1>1, <2>1, <2>2 DEF InOnePlace
  <2>3. CASE x # r
    <3>1. Waiting(x)' => Waiting(x)
      BY <1>3, <2>3 DEF Ask
    <3>2. InOnePlace(x)
      BY DEF AskedOnce
    <3>3. selection'[x] = selection[x] /\ (Unasked(x)' => Unasked(x))
      BY <2>3
    <3>4. QED
      BY <2>1, <3>1, <3>2, <3>3 DEF InOnePlace
  <2>4. QED
    BY <2>2, <2>3
<1>5. QED
  BY <1>3, <1>4 DEF AskedOnce

\* The requester's answer is in, and its picker is gone.
LEMMA AskedAnswered ==
    ASSUME IInv, AskedOnce, NEW pc \in {"consume", "share"},
           NEW outcome \in {"auto", "interactive", "refused"},
           PickerEnds(pc, outcome), xdphQ' = xdphQ, marked' = marked
    PROVE  AskedOnce'
<1> DEFINE r == picker.who
<1>1. /\ r \in Requesters /\ BeingServed(r) /\ picker'.pc = "idle"
      /\ selection' = [selection EXCEPT ![r] = outcome]
  BY DEF PickerEnds, PickerStep, AskedOnce, BeingServed, NoPicker
<1>2. selection \in [Requesters -> Outcomes] /\ phase \in [Sessions -> Phases]
  BY DEF IInv, TypeOK
<1>3. \A s \in Sessions :
         phase'[s] \in {"none", "creating", "created"} => phase'[s] = phase[s]
  BY DEF PickerEnds
<1>4. Distinct' /\ \A x : Waiting(x)' => Waiting(x)
  BY DEF AskedOnce, Distinct, Waiting, Ask
<1>5. ASSUME NEW x \in Requesters PROVE InOnePlace(x)'
  <2>1. ~BeingServed(x)'
    BY <1>1 DEF BeingServed
  <2>2. InOnePlace(x) /\ InOnePlace(r)
    BY <1>1 DEF AskedOnce
  <2>3. CASE x = r
    <3>1. ~Waiting(x)' /\ ~Unasked(x)
      BY <1>1, <1>4, <2>2, <2>3 DEF InOnePlace
    <3>2. selection'[x] = outcome
      BY <1>1, <1>2, <2>3
    <3>3. ~Unasked(x)'
      BY <1>3, <3>1, <3>2 DEF Unasked
    <3>4. QED
      BY <2>1, <3>1, <3>3 DEF InOnePlace
  <2>4. CASE x # r
    <3>1. selection'[x] = selection[x]
      BY <1>1, <1>2, <2>4
    <3>2. Unasked(x)' => Unasked(x)
      BY <1>3, <3>1 DEF Unasked
    <3>3. QED
      BY <1>4, <2>1, <2>2, <3>1, <3>2 DEF InOnePlace
  <2>5. QED
    BY <2>3, <2>4
<1>6. QED
  BY <1>1, <1>3, <1>4, <1>5 DEF AskedOnce

\* xdph takes a request for a selection: to a picker, or to refuse it.
LEMMA AskedTaken == ASSUME IInv, AskedOnce, XdphSelectSources PROVE AskedOnce'
<1>1. /\ xdphQ \in Seq(Message) /\ xdphQ # <<>> /\ xdphQ' = Tail(xdphQ)
      /\ picker.pc = "idle" /\ marked' = marked
      /\ Head(xdphQ).op = "SelectSources"
  BY DEF IInv, TypeOK, XdphSelectSources, XdphTakes
<1>2. Head(xdphQ) \in Message
  BY <1>1, HeadTailProperties
<1>3. PICK r \in Requesters : Head(xdphQ) = Ask(r)
  BY <1>1, <1>2 DEF Message, Ask
<1>4. /\ Distinct' /\ Waiting(r) /\ ~Waiting(r)'
      /\ \A x : Waiting(x)' => Waiting(x)
  BY <1>1, <1>3, QueueShrinks DEF AskedOnce
<1>5. selection \in [Requesters -> Outcomes] /\ phase \in [Sessions -> Phases]
  BY DEF IInv, TypeOK
<1>6. \A s \in Sessions :
         phase'[s] \in {"none", "creating", "created"} => phase'[s] = phase[s]
  BY <1>5 DEF XdphSelectSources
<1>7. \A x \in Requesters : InOnePlace(x) /\ ~BeingServed(x)
  BY <1>1 DEF AskedOnce, BeingServed
<1>8. CASE picker' = [pc |-> "check", who |-> r] /\ phase' = phase /\ selection' = selection
  <2>1. ASSUME NEW x \in Requesters PROVE InOnePlace(x)'
    <3>1. BeingServed(x)' => x = r
      BY <1>8 DEF BeingServed
    <3>2. Unasked(x)' <=> Unasked(x)
      BY <1>8 DEF Unasked
    <3>3. QED
      BY <1>4, <1>7, <1>8, <3>1, <3>2 DEF InOnePlace
  <2>2. QED
    BY <1>1, <1>3, <1>4, <1>8, <2>1 DEF AskedOnce
<1>9. CASE picker' = picker /\ selection' = [selection EXCEPT ![r] = "refused"]
  <2>1. ASSUME NEW x \in Requesters PROVE InOnePlace(x)'
    <3>1. ~BeingServed(x)'
      BY <1>1, <1>9 DEF BeingServed
    <3>2. x # r => selection'[x] = selection[x]
      BY <1>5, <1>9
    <3>3. x = r => selection'[x] = "refused" /\ ~Unasked(r) /\ ~Waiting(x)'
      BY <1>3, <1>4, <1>5, <1>7, <1>9 DEF InOnePlace
    <3>4. Unasked(x)' => Unasked(x) /\ x # r
      BY <1>6, <3>2, <3>3 DEF Unasked
    <3>5. QED
      BY <1>4, <1>7, <3>1, <3>2, <3>3, <3>4 DEF InOnePlace
  <2>2. QED
    BY <1>1, <1>4, <1>6, <1>9, <2>1 DEF AskedOnce
<1>10. Head(xdphQ).who = r
  BY <1>3 DEF Ask
<1>11. QED
  BY <1>8, <1>9, <1>10 DEF XdphSelectSources

\* A call of the portal is no request for a selection.
LEMMA CallAsksNothing ==
    ASSUME IInv, AskedOnce, NEW op \in PortalCalls, NEW s \in Sessions,
           NEW sent \in BOOLEAN, CallXdph(op, s, sent)
    PROVE  Distinct' /\ \A r : Waiting(r)' => Waiting(r)
<1> DEFINE m == [op |-> op, who |-> s]
<1>1. CASE sent
  <2>1. xdphQ' = Append(xdphQ, m) /\ xdphQ \in Seq(Message)
    BY <1>1 DEF CallXdph, IInv, TypeOK
  <2>2. m \in Message /\ m.op # "SelectSources" /\ \A r : m # Ask(r)
    BY DEF Message, Calls, PortalCalls, Requesters, Ask
  <2>3. QED
    BY <2>1, <2>2, QueueGrows DEF AskedOnce
<1>2. CASE ~sent
  BY <1>2 DEF CallXdph, AskedOnce, Distinct, Waiting, Ask
<1>3. QED
  BY <1>1, <1>2

LEMMA InitAsked == Init => AskedOnce
BY DEF Init, AskedOnce, Distinct, InOnePlace, Waiting, BeingServed, Unasked,
       NoPicker, Requesters

LEMMA AskedStep == ASSUME IInv, [Next]_vars PROVE AskedOnce => AskedOnce'
<1> SUFFICES ASSUME AskedOnce PROVE AskedOnce'
  OBVIOUS
<1>1. phase \in [Sessions -> Phases] /\ selection \in [Requesters -> Outcomes]
      /\ xdphQ \in Seq(Message) /\ Sessions \cap Apps = {}
  BY HandshakeAssumption DEF IInv, TypeOK
<1>2. xdphQ' = xdphQ => Distinct' /\ \A r : Waiting(r)' => Waiting(r)
  BY DEF AskedOnce, Distinct, Waiting, Ask
<1>3. ASSUME NEW s \in Sessions, PortalCreateSession(s) PROVE AskedOnce'
  <2>1. PICK sent \in BOOLEAN : CallXdph("CreateSession", s, sent)
    BY <1>3 DEF PortalCreateSession
  <2>2. Distinct' /\ \A r : Waiting(r)' => Waiting(r)
    BY <2>1, CallAsksNothing DEF PortalCalls
  <2>3. /\ picker' = picker /\ selection' = selection
        /\ phase' = [phase EXCEPT ![s] = "creating"] /\ phase[s] = "none"
        /\ marked' = marked \/ marked' = marked \cup {s}
    BY <1>3 DEF PortalCreateSession
  <2>4. /\ \A x \in Sessions :
              phase'[x] \in {"none", "creating", "created"} =>
                 phase[x] \in {"none", "creating", "created"}
        /\ \A x \in Sessions :
              phase'[x] = "none" => phase[x] = "none" /\ (x \in marked' => x \in marked)
    BY <1>1, <2>3
  <2>5. QED
    BY <2>2, <2>3, <2>4, AskedKept
<1>4. ASSUME NEW s \in Sessions, PortalStart(s) \/ PortalClose(s) PROVE AskedOnce'
  <2>1. PICK op \in PortalCalls, sent \in BOOLEAN : CallXdph(op, s, sent)
    BY <1>4 DEF PortalStart, PortalClose, PortalCalls, CloseSends
  <2>2. Distinct' /\ \A r : Waiting(r)' => Waiting(r)
    BY <2>1, CallAsksNothing
  <2>3. /\ picker' = picker /\ selection' = selection /\ marked' = marked
        /\ \A x \in Sessions :
              phase'[x] \in {"none", "creating", "created"} => phase'[x] = phase[x]
    BY <1>1, <1>4 DEF PortalStart, PortalClose
  <2>4. QED
    BY <2>2, <2>3, AskedKept
<1>5. CASE PortalReturns \/ PortalTimeout \/ PortalExit \/ PortalActivate \/ Tick
           \/ (\E s \in Sessions : FrontendDropsSession(s)) \/ UNCHANGED vars
  <2>1. xdphQ' = xdphQ /\ picker' = picker /\ selection' = selection /\ marked' = marked
    BY <1>5 DEF PortalReturns, PortalCreateReturn, PortalStartReturn,
                PortalCloseReturn, PortalTimeout, PortalExit, PortalActivate, Tick,
                FrontendDropsSession, vars
  <2>2. /\ \A x \in Sessions :
              phase'[x] \in {"none", "creating", "created"} =>
                 phase[x] \in {"none", "creating", "created"}
        /\ \A x \in Sessions : phase'[x] = "none" => phase[x] = "none"
    <3>1. CASE PortalReturns
      <4>1. PICK s \in Sessions :
               PortalCreateReturn(s) \/ PortalStartReturn(s) \/ PortalCloseReturn(s)
        BY <3>1 DEF PortalReturns
      <4>2. PortalCreateReturn(s) => phase[s] = "creating"
        BY DEF PortalCreateReturn, IInv, CallPhase
      <4>3. QED
        BY <1>1, <4>1, <4>2 DEF PortalCreateReturn, PortalStartReturn,
                                PortalCloseReturn, StartPhase
    <3>2. CASE PortalExit
      BY <1>1, <3>2 DEF PortalExit
    <3>3. CASE \E s \in Sessions : FrontendDropsSession(s)
      BY <1>1, <3>3 DEF FrontendDropsSession
    <3>4. CASE PortalTimeout \/ PortalActivate \/ Tick \/ UNCHANGED vars
      BY <3>4 DEF PortalTimeout, PortalActivate, Tick, vars
    <3>5. QED
      BY <1>5, <3>1, <3>2, <3>3, <3>4
  <2>3. QED
    BY <1>2, <2>1, <2>2, AskedKept
<1>6. CASE XdphCreateSession \/ XdphStart \/ XdphClose
  <2>1. /\ xdphQ # <<>> /\ xdphQ' = Tail(xdphQ) /\ picker' = picker
        /\ selection' = selection /\ marked' = marked /\ phase' = phase
    BY <1>6 DEF XdphCreateSession, XdphStart, XdphClose, XdphTakes
  <2>2. Distinct' /\ \A r : Waiting(r)' => Waiting(r)
    BY <1>1, <2>1, QueueShrinks DEF AskedOnce
  <2>3. QED
    BY <2>1, <2>2, AskedKept
<1>7. ASSUME NEW s \in Sessions, FrontendSelectSources(s) PROVE AskedOnce'
  <2>1. /\ phase[s] = "created" /\ phase' = [phase EXCEPT ![s] = "selecting"]
        /\ xdphQ' = Append(xdphQ, Ask(s)) /\ picker' = picker
        /\ selection' = selection /\ marked' = marked
    BY <1>7 DEF FrontendSelectSources, Ask
  <2>2. Unasked(s) /\ s \in Requesters /\ s \notin Apps
    BY <1>1, <2>1 DEF Unasked, Requesters
  <2>3. ~Unasked(s)'
    BY <1>1, <2>1, <2>2 DEF Unasked
  <2>4. selection'[s] = "none"
    BY <2>1, <2>2 DEF AskedOnce, InOnePlace
  <2>5. \A x \in Requesters \ {s} :
           selection'[x] = selection[x] /\ (Unasked(x)' => Unasked(x))
    BY <1>1, <2>1 DEF Unasked
  <2>6. \A x \in Sessions : phase'[x] = "none" => phase[x] = "none"
    BY <1>1, <2>1
  <2>7. QED
    BY <2>1, <2>2, <2>3, <2>4, <2>5, <2>6, AskedNow
<1>8. ASSUME NEW a \in Apps, AppSelectSources(a) PROVE AskedOnce'
  <2>1. /\ selection[a] = "none" /\ selection' = [selection EXCEPT ![a] = "pending"]
        /\ xdphQ' = Append(xdphQ, Ask(a)) /\ picker' = picker
        /\ phase' = phase /\ marked' = marked
    BY <1>8 DEF AppSelectSources, Ask
  <2>2. Unasked(a) /\ a \in Requesters /\ a \notin Sessions
    BY <1>1, <2>1 DEF Unasked, Requesters
  <2>3. selection'[a] = "pending"
    BY <1>1, <2>1, <2>2
  <2>4. ~Unasked(a)'
    BY <2>2, <2>3 DEF Unasked
  <2>5. \A x \in Requesters \ {a} :
           selection'[x] = selection[x] /\ (Unasked(x)' => Unasked(x))
    BY <1>1, <2>1 DEF Unasked
  <2>6. QED
    BY <2>1, <2>2, <2>3, <2>4, <2>5, AskedNow
<1>9. CASE XdphSelectSources
  BY <1>9, AskedTaken
<1>10. CASE PickerCheck
  <2>1. /\ xdphQ' = xdphQ /\ selection' = selection /\ phase' = phase
        /\ marked' = marked /\ picker.pc = "check"
        /\ picker' = [picker EXCEPT !.pc = IF MarkerValid THEN "consume" ELSE "share"]
    BY <1>10 DEF PickerCheck, PickerStep
  <2>2. picker'.who = picker.who /\ picker'.pc # "idle" /\ picker.pc # "idle"
    BY <2>1 DEF IInv, TypeOK
  <2>3. ASSUME NEW r \in Requesters PROVE InOnePlace(r)'
    <3>1. /\ BeingServed(r)' <=> BeingServed(r)
          /\ Unasked(r)' <=> Unasked(r)
      BY <2>1, <2>2 DEF BeingServed, Unasked
    <3>2. QED
      BY <1>2, <2>1, <3>1 DEF AskedOnce, InOnePlace
  <2>4. QED
    BY <1>2, <2>1, <2>2, <2>3 DEF AskedOnce
<1>11. CASE PickerConsume
  BY <1>11, AskedAnswered DEF PickerConsume
<1>12. CASE PickerShare
  BY <1>12, AskedAnswered DEF PickerShare
<1>13. QED
  BY <1>3, <1>4, <1>5, <1>6, <1>7, <1>8, <1>9, <1>10, <1>11, <1>12 DEF Next

----------------------------------------------------------------------------
(* Every step is one of the grant, or changes nothing of it. *)

\* Every session of CRD has its permit from one CreateSession.
LEMMA CreateIssues ==
    ASSUME IInv, AskedOnce, NEW s \in Sessions, PortalCreateSession(s)
    PROVE  Grant!Issue(s) \/ UNCHANGED Grant!grant
<1>1. /\ phase[s] = "none" /\ age' = [age EXCEPT ![s] = 0] /\ picker' = picker
      /\ selection' = selection
  BY DEF PortalCreateSession
<1>2. Unattended' = Unattended
  BY <1>1 DEF Unattended
<1>3. PICK writeOk \in BOOLEAN :
        /\ marker' = WrittenMarker(s, writeOk)
        /\ marked' = IF RuntimeDir /\ writeOk THEN marked \cup {s} ELSE marked
  BY DEF PortalCreateSession
<1>4. marker # s
  BY <1>1, HandshakeAssumption DEF IInv, MarkerNotOutlived
<1>5. age \in [Sessions -> 0 .. MarkerTTL] /\ marker \in Sessions \cup {None}
  BY DEF IInv, TypeOK
<1>6. CASE RuntimeDir /\ writeOk
  <2>1. marker' = s /\ marked' = marked \cup {s} /\ age'[s] = 0
    BY <1>1, <1>3, <1>5, <1>6 DEF WrittenMarker
  <2>2. MarkerValid'
    BY <1>6, <2>1, HandshakeAssumption DEF MarkerValid
  <2>3. Permit' <=> picker.pc # "consume"
    BY <1>1, <2>2 DEF Permit
  <2>4. Permit' = TRUE \/ Permit' = Permit
    BY <2>3 DEF Permit
  <2>5. s \notin marked
    BY <1>1 DEF AskedOnce
  <2>6. QED
    BY <1>2, <2>1, <2>4, <2>5 DEF Grant!Issue
<1>7. CASE ~(RuntimeDir /\ writeOk)
  <2>1. marker' = marker /\ marked' = marked
    BY <1>3, <1>7 DEF WrittenMarker
  <2>2. marker # None => age'[marker] = age[marker]
    BY <1>1, <1>4, <1>5
  <2>3. MarkerValid' = MarkerValid
    BY <2>1, <2>2 DEF MarkerValid
  <2>4. Permit' = Permit
    BY <1>1, <2>3 DEF Permit
  <2>5. QED
    BY <1>2, <2>1, <2>4 DEF Grant!grant
<1>8. QED
  BY <1>6, <1>7

\* What only ages or removes the marker withdraws the permit, if anything.
LEMMA RemovalWithdraws ==
    ASSUME marked' = marked, Unattended' = Unattended, Permit' => Permit
    PROVE  Grant!Withdraw \/ UNCHANGED Grant!grant
<1>1. CASE Permit /\ ~Permit'
  <2>1. Permit' = FALSE
    BY <1>1
  <2>2. QED
    BY <1>1, <2>1 DEF Grant!Withdraw
<1>2. CASE ~(Permit /\ ~Permit')
  <2>1. Permit' = Permit
    BY <1>2 DEF Permit
  <2>2. QED
    BY <2>1 DEF Grant!grant
<1>3. QED
  BY <1>1, <1>2

\* The picker that finds the marker valid uses the permit, at its test; its
\* removal of the file comes later and takes nothing more.
LEMMA CheckUses ==
    ASSUME IInv, AskedOnce, PickerCheck
    PROVE  (\E r \in Requesters : Grant!Use(r)) \/ UNCHANGED Grant!grant
<1> DEFINE r == picker.who
<1>1. /\ picker.pc = "check" /\ r \in Requesters
      /\ picker' = [picker EXCEPT !.pc = IF MarkerValid THEN "consume" ELSE "share"]
      /\ marker' = marker /\ age' = age /\ selection' = selection /\ marked' = marked
  BY DEF PickerCheck, PickerStep, AskedOnce
<1>2. picker'.who = r /\ picker'.pc = IF MarkerValid THEN "consume" ELSE "share"
  BY <1>1 DEF IInv, TypeOK
<1>3. CASE MarkerValid
  <2>1. Permit /\ ~Permit'
    BY <1>1, <1>2, <1>3 DEF Permit
  <2>2. Permit' = FALSE
    BY <2>1
  <2>3. Unattended' = Unattended \cup {picker.who}
    BY <1>1, <1>2, <1>3 DEF Unattended
  <2>4. Grant!Use(picker.who)
    BY <1>1, <2>1, <2>2, <2>3 DEF Grant!Use
  <2>5. QED
    BY <1>1, <2>4
<1>4. CASE ~MarkerValid
  <2>1. Unattended' = Unattended
    BY <1>1, <1>2, <1>4 DEF Unattended
  <2>2. ~MarkerValid'
    BY <1>1, <1>4 DEF MarkerValid
  <2>3. Permit' = Permit
    BY <1>4, <2>2 DEF Permit
  <2>4. QED
    BY <1>1, <2>1, <2>3 DEF Grant!grant
<1>5. QED
  BY <1>3, <1>4

\* An answer is given once: no request served without asking is asked again.
LEMMA AnswersStay ==
    ASSUME IInv, AskedOnce, NEW outcome \in {"interactive", "refused"},
           PickerEnds("share", outcome)
    PROVE  Unattended' = Unattended
<1> DEFINE r == picker.who
<1>1. /\ picker.pc = "share" /\ r \in Requesters /\ picker'.pc = "idle"
      /\ selection' = [selection EXCEPT ![r] = outcome]
  BY DEF PickerEnds, PickerStep, AskedOnce, NoPicker
<1>2. InOnePlace(picker.who) /\ BeingServed(picker.who)
  BY <1>1 DEF AskedOnce, BeingServed
<1>3. selection[r] # "auto" /\ selection \in [Requesters -> Outcomes]
  BY <1>2 DEF InOnePlace, IInv, TypeOK
<1>4. \A x \in Requesters : selection'[x] = "auto" <=> selection[x] = "auto"
  BY <1>1, <1>3
<1>5. QED
  BY <1>1, <1>4 DEF Unattended

LEMMA StepGrants ==
    ASSUME IInv, AskedOnce, [Next]_vars PROVE [Grant!Next]_(Grant!grant)
<1>1. /\ age \in [Sessions -> 0 .. MarkerTTL] /\ marker \in Sessions \cup {None}
      /\ selection \in [Requesters -> Outcomes]
  BY DEF IInv, TypeOK
<1>2. ASSUME NEW s \in Sessions, PortalCreateSession(s)
      PROVE  [Grant!Next]_(Grant!grant)
  BY <1>2, CreateIssues DEF Grant!Next
<1>3. CASE PickerCheck
  BY <1>3, CheckUses DEF Grant!Next
<1>4. CASE PickerConsume
  <2>1. /\ picker.pc = "consume" /\ picker'.pc = "idle" /\ marker' = None
        /\ picker.who \in Requesters /\ marked' = marked
        /\ selection' = [selection EXCEPT ![picker.who] = "auto"]
    BY <1>4 DEF PickerConsume, PickerEnds, PickerStep, NoPicker, MarkerAfterUse,
                AskedOnce
  <2>2. Unattended' = Unattended
    BY <1>1, <2>1 DEF Unattended
  <2>3. ~Permit /\ ~Permit'
    BY <2>1 DEF Permit, MarkerValid
  <2>4. QED
    BY <2>1, <2>2, <2>3, RemovalWithdraws DEF Grant!Next
<1>5. CASE PickerShare
  <2>1. PICK outcome \in {"interactive", "refused"} : PickerEnds("share", outcome)
    BY <1>5 DEF PickerShare
  <2>2. Unattended' = Unattended
    BY <2>1, AnswersStay
  <2>3. /\ picker.pc = "share" /\ marker' = marker /\ age' = age /\ marked' = marked
    BY <1>5, <2>1 DEF PickerShare, PickerEnds, PickerStep
  <2>4. Permit' => Permit
    BY <2>3 DEF Permit, MarkerValid
  <2>5. QED
    BY <2>2, <2>3, <2>4, RemovalWithdraws DEF Grant!Next
<1>6. ASSUME NEW s \in Sessions, PortalStartReturn(s) \/ PortalCloseReturn(s)
      PROVE  [Grant!Next]_(Grant!grant)
  <2>1. /\ picker' = picker /\ selection' = selection /\ marked' = marked
        /\ age' = age /\ marker' = ClearedMarker
    BY <1>6 DEF PortalStartReturn, PortalCloseReturn, MarkerAfterStart,
                MarkerAfterClose
  <2>2. Unattended' = Unattended
    BY <2>1 DEF Unattended
  <2>3. Permit' => Permit
    BY <2>1 DEF Permit, MarkerValid, ClearedMarker
  <2>4. QED
    BY <2>1, <2>2, <2>3, RemovalWithdraws DEF Grant!Next
<1>7. CASE Tick
  <2>1. /\ picker' = picker /\ selection' = selection /\ marked' = marked
        /\ marker' = marker
        /\ age' = [s \in Sessions |-> IF age[s] < MarkerTTL /\ phase[s] # "none"
                                        THEN age[s] + 1 ELSE age[s]]
    BY <1>7 DEF Tick
  <2>2. Unattended' = Unattended
    BY <2>1 DEF Unattended
  <2>3. \A s \in Sessions : age'[s] < MarkerTTL => age[s] < MarkerTTL
    BY <1>1, <2>1, HandshakeAssumption
  <2>4. Permit' => Permit
    BY <1>1, <2>1, <2>3 DEF Permit, MarkerValid
  <2>5. QED
    BY <2>1, <2>2, <2>4, RemovalWithdraws DEF Grant!Next
<1>8. CASE XdphSelectSources
  <2>1. /\ marker' = marker /\ age' = age /\ marked' = marked
        /\ picker.pc = "idle" /\ picker'.pc # "consume"
    BY <1>8 DEF XdphSelectSources, XdphTakes
  <2>2. PICK r \in Requesters : Head(xdphQ) = Ask(r)
    <3>1. xdphQ \in Seq(Message) /\ xdphQ # <<>> /\ Head(xdphQ).op = "SelectSources"
      BY <1>8 DEF XdphSelectSources, XdphTakes, IInv, TypeOK
    <3>2. Head(xdphQ) \in Message
      BY <3>1, HeadTailProperties
    <3>3. QED
      BY <3>1, <3>2 DEF Message, Ask
  <2>3. selection[r] # "auto"
    <3>1. xdphQ \in Seq(Message) /\ xdphQ # <<>> /\ xdphQ' = Tail(xdphQ)
      BY <1>8 DEF XdphSelectSources, XdphTakes, IInv, TypeOK
    <3>2. Waiting(r)
      BY <2>2, <3>1, QueueShrinks DEF AskedOnce
    <3>3. QED
      BY <3>2 DEF AskedOnce, InOnePlace
  <2>4. selection' = selection \/ selection' = [selection EXCEPT ![r] = "refused"]
    BY <1>8, <2>2 DEF XdphSelectSources, Ask
  <2>5. \A x \in Requesters : selection'[x] = "auto" <=> selection[x] = "auto"
    BY <1>1, <2>3, <2>4
  <2>6. Unattended' = Unattended
    BY <2>1, <2>5 DEF Unattended
  <2>7. Permit' => Permit
    BY <2>1 DEF Permit, MarkerValid
  <2>8. QED
    BY <2>1, <2>6, <2>7, RemovalWithdraws DEF Grant!Next
<1>9. ASSUME NEW a \in Apps, AppSelectSources(a) PROVE [Grant!Next]_(Grant!grant)
  <2>1. /\ marker' = marker /\ age' = age /\ marked' = marked /\ picker' = picker
        /\ selection[a] = "none" /\ selection' = [selection EXCEPT ![a] = "pending"]
    BY <1>9 DEF AppSelectSources
  <2>2. \A x \in Requesters : selection'[x] = "auto" <=> selection[x] = "auto"
    BY <1>1, <2>1
  <2>3. Unattended' = Unattended
    BY <2>1, <2>2 DEF Unattended
  <2>4. Permit' => Permit
    BY <2>1 DEF Permit, MarkerValid
  <2>5. QED
    BY <2>1, <2>3, <2>4, RemovalWithdraws DEF Grant!Next
<1>10. CASE UNCHANGED <<marker, age, marked, picker, selection>>
  <2>1. Unattended' = Unattended /\ (Permit' => Permit)
    BY <1>10 DEF Unattended, Permit, MarkerValid
  <2>2. QED
    BY <1>10, <2>1, RemovalWithdraws DEF Grant!Next
<1>11. QED
  BY <1>2, <1>3, <1>4, <1>5, <1>6, <1>7, <1>8, <1>9, <1>10
     DEF Next, PortalReturns, PortalStart, PortalClose, PortalCreateReturn,
         FrontendSelectSources, FrontendDropsSession, PortalTimeout, PortalExit,
         PortalActivate, XdphCreateSession, XdphStart, XdphClose, vars

LEMMA InitGrants == Init => Grant!Init
<1>1. SUFFICES ASSUME Init PROVE Grant!Init
  OBVIOUS
<1>2. marked = {} /\ Unattended = {}
  BY <1>1 DEF Init, Unattended, NoPicker
<1>3. Permit = FALSE
  BY <1>1 DEF Init, Permit, MarkerValid
<1>4. QED
  BY <1>2, <1>3 DEF Grant!Init

\* A screen is shared without asking only against a permit that goes with it,
\* the purpose of the marker in select_marker.cpp and hyprcrd-picker, whatever
\* is written or removed between the picker's test and its rm.
THEOREM Refinement == Spec => SharesAgainstPermit
<1>1. IInv /\ AskedOnce /\ [Next]_vars => AskedOnce'
  BY AskedStep
<1>2. IInv /\ AskedOnce /\ [Next]_vars => [Grant!Next]_(Grant!grant)
  BY StepGrants
<1>3. QED
  BY <1>1, <1>2, InitGrants, InitAsked, Invariance, PTL
     DEF Spec, SharesAgainstPermit, Grant!Spec

----------------------------------------------------------------------------
(* What the grant gives a specification that implements it: there are never    *)
(* more requests served without asking than permits issued.                   *)

\* While the permit is there, one more has been issued than was used.
GrantInv ==
    /\ IsFiniteSet(marked)
    /\ IsFiniteSet(Unattended)
    /\ Cardinality(Unattended) <= Cardinality(marked)
    /\ Permit => Cardinality(Unattended) < Cardinality(marked)

LEMMA InitGrant == Grant!Init => GrantInv
<1>1. SUFFICES ASSUME Grant!Init PROVE GrantInv
  OBVIOUS
<1>2. marked = {} /\ Unattended = {} /\ ~Permit
  BY <1>1 DEF Grant!Init
<1>3. Cardinality(marked) = 0 /\ Cardinality(Unattended) = 0
      /\ IsFiniteSet(marked) /\ IsFiniteSet(Unattended)
  BY <1>2, FS_EmptySet
<1>4. Cardinality(Unattended) <= Cardinality(marked)
  BY <1>3
<1>5. QED
  BY <1>2, <1>3, <1>4 DEF GrantInv

\* An Issue raises the one side and leaves the other alone; a Use takes up the
\* difference the permit stands for.
LEMMA GrantStep == ASSUME GrantInv, [Grant!Next]_(Grant!grant) PROVE GrantInv'
<1> DEFINE i == Cardinality(marked)
           u == Cardinality(Unattended)
<1>1. IsFiniteSet(marked) /\ IsFiniteSet(Unattended) /\ u <= i /\ (Permit => u < i)
  BY DEF GrantInv
<1>2. i \in Nat /\ u \in Nat
  BY <1>1, FS_CardinalityType
<1>3. ASSUME NEW s \in Sessions, Grant!Issue(s) PROVE GrantInv'
  <2>1. s \notin marked /\ marked' = marked \cup {s} /\ Unattended' = Unattended
    BY <1>3 DEF Grant!Issue
  <2>2. IsFiniteSet(marked') /\ Cardinality(marked') = i + 1
    BY <1>1, <2>1, FS_AddElement
  <2>3. Cardinality(Unattended') < Cardinality(marked')
        /\ Cardinality(Unattended') <= Cardinality(marked')
    BY <1>1, <1>2, <2>1, <2>2
  <2>4. QED
    BY <1>1, <2>1, <2>2, <2>3 DEF GrantInv
<1>4. CASE Grant!Withdraw
  BY <1>1, <1>4 DEF Grant!Withdraw, GrantInv
<1>5. ASSUME NEW r \in Requesters, Grant!Use(r) PROVE GrantInv'
  <2>1. Permit /\ ~Permit' /\ marked' = marked /\ Unattended' = Unattended \cup {r}
    BY <1>5 DEF Grant!Use
  <2>2. /\ IsFiniteSet(Unattended')
        /\ Cardinality(Unattended') = u \/ Cardinality(Unattended') = u + 1
    BY <1>1, <2>1, FS_AddElement
  <2>3. u < i
    BY <1>1, <2>1
  <2>4. Cardinality(Unattended') <= Cardinality(marked')
    BY <1>2, <2>1, <2>2, <2>3
  <2>5. QED
    BY <1>1, <2>1, <2>2, <2>4 DEF GrantInv
<1>6. CASE UNCHANGED Grant!grant
  BY <1>6 DEF Grant!grant, GrantInv
<1>7. QED
  BY <1>3, <1>4, <1>5, <1>6 DEF Grant!Next

\* One permit, one request: whatever implements the grant serves at most as
\* many requests without asking as sessions were issued a permit.
THEOREM PermitsBoundServed == SharesAgainstPermit => []OneSelectionPerMarker
<1>1. GrantInv => OneSelectionPerMarker
  BY DEF GrantInv, OneSelectionPerMarker
<1>2. GrantInv /\ [Grant!Next]_(Grant!grant) => GrantInv'
  BY GrantStep
<1>3. QED
  BY InitGrant, <1>1, <1>2, PTL DEF SharesAgainstPermit, Grant!Spec

\* One marker, one request, the purpose of hyprcrd-picker's rm: what holds of
\* the grant holds of the handshake, which implements it.
THEOREM OneEach == Spec => []OneSelectionPerMarker
BY Refinement, PermitsBoundServed, PTL

----------------------------------------------------------------------------
(* Whose marker counts. The file may name another session by now, but then one *)
(* that wrote it later: a marker is never older than any undisturbed session   *)
(* that still waits.                                                          *)

Pending == {"creating", "created", "selecting"}

MarkerStands ==
    \A s \in marked \ disturbed : phase[s] \in Pending =>
        RuntimeDir /\ marker # None /\ age[marker] <= age[s]

\* Steps that leave the marker alone and let no session begin.
LEMMA StandsKept ==
    ASSUME MarkerStands, UNCHANGED <<marker, age, marked, disturbed>>,
           \A s \in marked : phase'[s] \in Pending => phase[s] \in Pending
    PROVE  MarkerStands'
BY DEF MarkerStands

LEMMA StandsStep == ASSUME IInv, AskedOnce, MarkerStands, [Next]_vars PROVE MarkerStands'
<1>1. /\ phase \in [Sessions -> Phases] /\ age \in [Sessions -> 0 .. MarkerTTL]
      /\ marker \in Sessions \cup {None} /\ marked \subseteq Sessions
      /\ disturbed \subseteq Sessions
      /\ None \notin Sessions /\ MarkerTTL \in Nat /\ Sessions \cap Apps = {}
  BY HandshakeAssumption DEF IInv, TypeOK
<1>2. ASSUME NEW t \in Sessions, PortalCreateSession(t) PROVE MarkerStands'
  <2>1. PICK ok \in BOOLEAN :
            /\ marker' = WrittenMarker(t, ok)
            /\ marked' = IF RuntimeDir /\ ok THEN marked \cup {t} ELSE marked
    BY <1>2 DEF PortalCreateSession
  <2>2. /\ phase' = [phase EXCEPT ![t] = "creating"] /\ phase[t] = "none"
        /\ age' = [age EXCEPT ![t] = 0] /\ disturbed' = disturbed
    BY <1>2 DEF PortalCreateSession
  <2>3. t \notin marked
    BY <2>2 DEF AskedOnce
  <2>4. \A s \in Sessions : age'[s] \in Nat /\ age'[s] <= age[s] /\ age'[t] = 0
    BY <1>1, <2>2
  <2>5. CASE RuntimeDir /\ ok
    <3>1. marker' = t
      BY <2>1, <2>5 DEF WrittenMarker
    <3>2. marked' \subseteq Sessions
      BY <1>1, <2>1
    <3>3. QED
      BY <1>1, <2>4, <2>5, <3>1, <3>2 DEF MarkerStands
  <2>6. CASE ~(RuntimeDir /\ ok)
    <3>1. marker' = marker /\ marked' = marked
      BY <2>1, <2>6 DEF WrittenMarker
    <3>2. \A s \in marked : phase'[s] = phase[s] /\ age'[s] = age[s]
      BY <1>1, <2>2, <2>3
    <3>3. ASSUME NEW s \in marked \ disturbed, phase[s] \in Pending
          PROVE  RuntimeDir /\ marker # None /\ age'[marker] <= age'[s]
      <4>1. RuntimeDir /\ marker # None /\ age[marker] <= age[s]
        BY <3>3 DEF MarkerStands
      <4>2. QED
        BY <1>1, <2>4, <3>2, <4>1
    <3>4. QED
      BY <2>2, <3>1, <3>2, <3>3 DEF MarkerStands
  <2>7. QED
    BY <2>5, <2>6
<1>3. ASSUME NEW t \in Sessions,
             \/ PortalStart(t) \/ PortalClose(t) \/ PortalCreateReturn(t)
             \/ FrontendSelectSources(t) \/ FrontendDropsSession(t)
      PROVE  MarkerStands'
  <2>1. /\ UNCHANGED <<marker, age, marked, disturbed>>
        /\ \A s \in Sessions : phase'[s] \in Pending => phase[s] \in Pending
    BY <1>1, <1>3 DEF PortalStart, PortalClose, PortalCreateReturn, Pending, IInv,
                      CallPhase, FrontendSelectSources, FrontendDropsSession
  <2>2. QED
    BY <1>1, <2>1, StandsKept
<1>4. ASSUME NEW t \in Sessions, PortalStartReturn(t) \/ PortalCloseReturn(t)
      PROVE  MarkerStands'
  <2>1. marked' = marked /\ disturbed' = disturbed \cup (marked \ {t})
    BY <1>4 DEF PortalStartReturn, PortalCloseReturn, Disturbs
  <2>2. phase'[t] \notin Pending
    BY <1>1, <1>4 DEF PortalStartReturn, PortalCloseReturn, StartPhase, Pending
  <2>3. QED
    BY <2>1, <2>2 DEF MarkerStands
<1>5. CASE PickerConsume
  <2>1. marked' = marked /\ disturbed' = disturbed \cup (marked \ {picker.who})
    BY <1>5 DEF PickerConsume, Disturbs
  <2>2. picker.who \in Sessions => phase'[picker.who] \notin Pending
    <3>1. BeingServed(picker.who)
      BY <1>5 DEF PickerConsume, PickerEnds, PickerStep, BeingServed
    <3>2. ~Unasked(picker.who)
      BY <3>1 DEF AskedOnce, InOnePlace, BeingServed
    <3>3. QED
      BY <1>1, <1>5, <3>2 DEF PickerConsume, PickerEnds, Unasked, Pending
  <2>3. QED
    BY <1>1, <2>1, <2>2 DEF MarkerStands
<1>6. CASE Tick
  <2>1. /\ marker' = marker /\ marked' = marked /\ disturbed' = disturbed
        /\ phase' = phase
        /\ \A s \in Sessions :
              age'[s] = IF age[s] < MarkerTTL /\ phase[s] # "none" THEN age[s] + 1
                                                                  ELSE age[s]
    BY <1>6 DEF Tick
  <2>2. ASSUME NEW s \in marked \ disturbed, phase[s] \in Pending
        PROVE  RuntimeDir /\ marker # None /\ age'[marker] <= age'[s]
    <3>1. RuntimeDir /\ marker # None /\ age[marker] <= age[s] /\ phase[s] # "none"
      BY <2>2 DEF MarkerStands, Pending
    <3>2. /\ marker \in Sessions /\ s \in Sessions
          /\ age[marker] \in 0 .. MarkerTTL /\ age[s] \in 0 .. MarkerTTL
      BY <1>1, <3>1
    <3>3. QED
      BY <1>1, <2>1, <3>1, <3>2
  <2>3. QED
    BY <2>1, <2>2 DEF MarkerStands
<1>7. CASE XdphSelectSources \/ PickerShare \/ PortalExit
  <2>1. /\ UNCHANGED <<marker, age, marked, disturbed>>
        /\ \A s \in Sessions : phase'[s] \in Pending => phase[s] \in Pending
    BY <1>1, <1>7 DEF XdphSelectSources, PickerShare, PickerEnds, PortalExit, Pending
  <2>2. QED
    BY <1>1, <2>1, StandsKept
<1>8. CASE UNCHANGED <<marker, age, marked, disturbed, phase>>
  BY <1>8, StandsKept
<1>9. QED
  BY <1>2, <1>3, <1>4, <1>5, <1>6, <1>7, <1>8
     DEF Next, PortalReturns, AppSelectSources, PortalTimeout, PortalActivate,
         XdphCreateSession, XdphStart, XdphClose, PickerCheck, vars

\* Only the picker's test turns a session away, and it finds the marker valid
\* that stands for the session.
LEMMA TurnedAwayStep ==
    ASSUME IInv, MarkerStands, [Next]_vars
    PROVE  [\A s \in marked \ disturbed : TurnedAway(s) => age[s] >= MarkerTTL]_vars
<1>1. SUFFICES ASSUME NEW s \in marked \ disturbed, TurnedAway(s)
               PROVE  age[s] >= MarkerTTL
  OBVIOUS
<1>2. PickerCheck
  <2>1. picker.pc = "check" /\ picker'.pc = "share"
    BY <1>1 DEF TurnedAway
  <2>2. ~(XdphSelectSources \/ PickerConsume \/ PickerShare)
    BY <2>1 DEF XdphSelectSources, XdphTakes, PickerConsume, PickerShare, PickerEnds,
                PickerStep
  <2>3. ~(picker' = picker)
    BY <2>1
  <2>4. QED
    BY <2>2, <2>3
       DEF Next, PortalReturns, PortalCreateSession, PortalStart, PortalClose,
           PortalCreateReturn, PortalStartReturn, PortalCloseReturn,
           FrontendSelectSources, FrontendDropsSession, AppSelectSources,
           PortalTimeout, PortalExit, PortalActivate, XdphCreateSession, XdphStart,
           XdphClose, Tick, vars
<1>3. ~MarkerValid
  <2>1. picker' = [picker EXCEPT !.pc = IF MarkerValid THEN "consume" ELSE "share"]
    BY <1>2 DEF PickerCheck, PickerStep
  <2>2. picker'.pc = "share" /\ picker'.pc = IF MarkerValid THEN "consume" ELSE "share"
    BY <1>1, <2>1 DEF TurnedAway, IInv, TypeOK
  <2>3. QED
    BY <2>2
<1>4. RuntimeDir /\ marker # None /\ age[marker] <= age[s]
  BY <1>1 DEF MarkerStands, TurnedAway, Pending
<1>5. /\ MarkerTTL \in Nat /\ age[s] \in Nat
      /\ age[marker] \in Nat
  BY <1>4, HandshakeAssumption DEF IInv, TypeOK
<1>6. ~(age[marker] < MarkerTTL)
  BY <1>3, <1>4 DEF MarkerValid
<1>7. QED
  BY <1>4, <1>5, <1>6

\* A waiting session is selected for without asking while its marker is fresh,
\* unless another one used or removed it since: the third line of hyprcrd-picker,
\* with what it leaves out.
THEOREM UnattendedServed == Spec => UnattendedUnlessDisturbed
<1>1. Init => MarkerStands
  BY DEF Init, MarkerStands
<1>2. IInv /\ AskedOnce /\ [Next]_vars => AskedOnce'
  BY AskedStep
<1>3. IInv /\ AskedOnce /\ MarkerStands /\ [Next]_vars => MarkerStands'
  BY StandsStep
<1>4. IInv /\ MarkerStands /\ [Next]_vars
        => [\A s \in marked \ disturbed : TurnedAway(s) => age[s] >= MarkerTTL]_vars
  BY TurnedAwayStep
<1>5. QED
  BY <1>1, <1>2, <1>3, <1>4, InitAsked, Invariance, PTL
     DEF Spec, UnattendedUnlessDisturbed

----------------------------------------------------------------------------
(* The paired session at xdph. Its calls travel in bus order, and a session    *)
(* says nothing after its Close.                                              *)

Msg(op, who) == [op |-> op, who |-> who]

Queued(m) == \E n \in 1 .. Len(xdphQ) : xdphQ[n] = m

\* xdph knows the session, or is about to.
Known(s) == s \in xdphSessions \/ Queued(Msg("CreateSession", s))

Over == {"closing", "closed", "abandoned"}

CloseIsLast ==
    \A m, n \in 1 .. Len(xdphQ) :
        m < n /\ xdphQ[m].op = "Close" => xdphQ[n].who # xdphQ[m].who

CloseIsOver ==
    \A n \in 1 .. Len(xdphQ) :
        xdphQ[n].op = "Close"
        => xdphQ[n].who \in Sessions /\ phase[xdphQ[n].who] \in Over

CreatedKnown ==
    \A s \in Sessions :
        phase[s] \in {"creating", "created"} /\ <<"CreateSession", s>> \notin unsent
        => Known(s)

AskedPaired ==
    \A s \in Sessions : \A n \in 1 .. Len(xdphQ) :
        xdphQ[n] = Ask(s) /\ <<"CreateSession", s>> \notin unsent
        => \/ s \in xdphSessions
           \/ \E m \in 1 .. n - 1 : xdphQ[m] = Msg("CreateSession", s)

CloseFollows ==
    \A s \in Sessions :
        phase[s] \in {"closing", "closed"} /\ Known(s)
        => Queued(Msg("Close", s)) \/ <<"Close", s>> \in unsent

PairInv ==
    /\ CloseIsLast /\ CloseIsOver /\ CreatedKnown /\ AskedPaired /\ CloseFollows

\* The phases a session passes without a call of its own.
PhaseDrifts(s) ==
    /\ phase[s] \in Over => phase'[s] \in Over
    /\ phase'[s] \in {"creating", "created"} => phase[s] \in {"creating", "created"}
    /\ phase'[s] \in {"closing", "closed"} => phase[s] \in {"closing", "closed"}

\* Nothing moves on the bus.
LEMMA PairKept ==
    ASSUME PairInv, UNCHANGED <<xdphQ, xdphSessions, unsent>>,
           \A s \in Sessions : PhaseDrifts(s)
    PROVE  PairInv'
<1>1. CloseIsLast' /\ AskedPaired'
  BY DEF PairInv, CloseIsLast, AskedPaired, Ask, Msg
<1>2. CloseIsOver'
  BY DEF PairInv, CloseIsOver, PhaseDrifts
<1>3. \A s \in Sessions : Known(s)' <=> Known(s)
  BY DEF Known, Queued, Msg
<1>4. \A s \in Sessions : Queued(Msg("Close", s))' <=> Queued(Msg("Close", s))
  BY DEF Queued, Msg
<1>5. CreatedKnown' /\ CloseFollows'
  BY <1>3, <1>4 DEF PairInv, CreatedKnown, CloseFollows, PhaseDrifts
<1>6. QED
  BY <1>1, <1>2, <1>5 DEF PairInv

\* A call gets no further than the portal.
LEMMA PairUnsent ==
    ASSUME PairInv, NEW op \in PortalCalls, NEW s \in Sessions,
           UNCHANGED <<xdphQ, xdphSessions>>, unsent' = unsent \cup {<<op, s>>},
           phase[s] \notin Over,
           phase'[s] \in {"creating", "created"} => op = "CreateSession",
           phase'[s] \in {"closing", "closed"} => op = "Close",
           \A x \in Sessions \ {s} : phase'[x] = phase[x]
    PROVE  PairInv'
<1>1. CloseIsLast' /\ AskedPaired'
  BY DEF PairInv, CloseIsLast, AskedPaired, Ask, Msg
<1>2. CloseIsOver'
  BY DEF PairInv, CloseIsOver
<1>3. \A x \in Sessions : Known(x)' <=> Known(x)
  BY DEF Known, Queued, Msg
<1>4. \A x \in Sessions : Queued(Msg("Close", x))' <=> Queued(Msg("Close", x))
  BY DEF Queued, Msg
<1>5. CreatedKnown' /\ CloseFollows'
  BY <1>3, <1>4 DEF PairInv, CreatedKnown, CloseFollows
<1>6. QED
  BY <1>1, <1>2, <1>5 DEF PairInv

\* A message is put on the bus by one whose session is not over.
LEMMA PairSent ==
    ASSUME PairInv, xdphQ \in Seq(Message), NEW m \in Message,
           xdphQ' = Append(xdphQ, m), UNCHANGED <<xdphSessions, unsent>>,
           m.op \in PortalCalls => m.who \in Sessions,
           m.who \in Sessions => phase[m.who] \notin Over,
           m.op = "Close" => phase'[m.who] \in Over,
           m.op = "SelectSources" /\ m.who \in Sessions => phase[m.who] = "created",
           m.who \in Sessions =>
              /\ phase'[m.who] \in {"creating", "created"} => m.op = "CreateSession"
              /\ phase'[m.who] \in {"closing", "closed"} => m.op = "Close",
           \A x \in Sessions \ {m.who} : phase'[x] = phase[x]
    PROVE  PairInv'
<1>1. /\ Len(xdphQ) \in Nat /\ Len(xdphQ') = Len(xdphQ) + 1
      /\ \A n \in 1 .. Len(xdphQ) : xdphQ'[n] = xdphQ[n]
      /\ xdphQ'[Len(xdphQ) + 1] = m
  BY AppendProperties, LenProperties
<1>2. \A n \in 1 .. Len(xdphQ') : n \in 1 .. Len(xdphQ) \/ n = Len(xdphQ) + 1
  BY <1>1
<1>3. \A n \in 1 .. Len(xdphQ) : xdphQ[n].op = "Close" => xdphQ[n].who # m.who
  BY DEF PairInv, CloseIsOver
<1>4. CloseIsLast'
  <2>1. SUFFICES ASSUME NEW k \in 1 .. Len(xdphQ'), NEW n \in 1 .. Len(xdphQ'),
                        k < n, xdphQ'[k].op = "Close"
                 PROVE  xdphQ'[n].who # xdphQ'[k].who
    BY DEF CloseIsLast
  <2>2. k \in 1 .. Len(xdphQ) /\ xdphQ'[k] = xdphQ[k]
    BY <1>1, <2>1
  <2>3. CASE n \in 1 .. Len(xdphQ)
    BY <1>1, <2>1, <2>2, <2>3 DEF PairInv, CloseIsLast
  <2>4. CASE n = Len(xdphQ) + 1
    BY <1>1, <1>3, <2>1, <2>2, <2>4
  <2>5. QED
    BY <1>2, <2>3, <2>4
<1>5. CloseIsOver'
  <2>1. SUFFICES ASSUME NEW n \in 1 .. Len(xdphQ'), xdphQ'[n].op = "Close"
                 PROVE  xdphQ'[n].who \in Sessions /\ phase'[xdphQ'[n].who] \in Over
    BY DEF CloseIsOver
  <2>2. CASE n \in 1 .. Len(xdphQ)
    BY <1>1, <1>3, <2>1, <2>2 DEF PairInv, CloseIsOver
  <2>3. CASE n = Len(xdphQ) + 1
    BY <1>1, <2>1, <2>3 DEF PortalCalls
  <2>4. QED
    BY <1>2, <2>2, <2>3
<1>6. \A x : Queued(x)' <=> Queued(x) \/ x = m
  BY <1>1, <1>2 DEF Queued
<1>7. m = Msg(m.op, m.who)
  BY DEF Message, Msg
<1>8. CreatedKnown'
  <2>1. SUFFICES ASSUME NEW x \in Sessions, phase'[x] \in {"creating", "created"},
                        <<"CreateSession", x>> \notin unsent
                 PROVE  Known(x)'
    BY DEF CreatedKnown
  <2>2. CASE x = m.who
    BY <1>6, <1>7, <2>1, <2>2 DEF Known, Msg
  <2>3. CASE x # m.who
    <3>1. Known(x)
      BY <2>1, <2>3 DEF PairInv, CreatedKnown
    <3>2. QED
      BY <1>6, <3>1 DEF Known, Msg
  <2>4. QED
    BY <2>2, <2>3
<1>9. AskedPaired'
  <2>1. SUFFICES ASSUME NEW x \in Sessions, NEW n \in 1 .. Len(xdphQ'),
                        xdphQ'[n] = Ask(x), <<"CreateSession", x>> \notin unsent,
                        x \notin xdphSessions
                 PROVE  \E k \in 1 .. n - 1 : xdphQ'[k] = Msg("CreateSession", x)
    BY DEF AskedPaired, Msg, Ask
  <2>2. CASE n \in 1 .. Len(xdphQ)
    <3>1. PICK k \in 1 .. n - 1 : xdphQ[k] = Msg("CreateSession", x)
      BY <1>1, <2>1, <2>2 DEF PairInv, AskedPaired
    <3>2. k \in 1 .. Len(xdphQ)
      BY <1>1, <2>2
    <3>3. QED
      BY <1>1, <3>1, <3>2
  <2>3. CASE n = Len(xdphQ) + 1
    <3>1. m.who = x /\ m.op = "SelectSources"
      BY <1>1, <2>1, <2>3 DEF Ask
    <3>2. Known(x)
      BY <2>1, <3>1 DEF PairInv, CreatedKnown
    <3>3. PICK k \in 1 .. Len(xdphQ) : xdphQ[k] = Msg("CreateSession", x)
      BY <2>1, <3>2 DEF Known, Queued
    <3>4. k \in 1 .. n - 1 /\ xdphQ'[k] = xdphQ[k]
      BY <1>1, <2>3
    <3>5. QED
      BY <3>3, <3>4
  <2>4. QED
    BY <1>2, <2>2, <2>3
<1>10. CloseFollows'
  <2>1. SUFFICES ASSUME NEW x \in Sessions, phase'[x] \in {"closing", "closed"},
                        Known(x)'
                 PROVE  Queued(Msg("Close", x))' \/ <<"Close", x>> \in unsent
    BY DEF CloseFollows, Msg
  <2>2. CASE x = m.who
    BY <1>6, <1>7, <2>1, <2>2
  <2>3. CASE x # m.who
    <3>1. Msg("CreateSession", x) # m
      BY <2>3 DEF Msg
    <3>2. Known(x)
      BY <1>6, <2>1, <3>1 DEF Known, Msg
    <3>3. Queued(Msg("Close", x)) \/ <<"Close", x>> \in unsent
      BY <2>1, <2>3, <3>2 DEF PairInv, CloseFollows
    <3>4. QED
      BY <1>6, <3>3 DEF Msg
  <2>4. QED
    BY <2>2, <2>3
<1>11. QED
  BY <1>4, <1>5, <1>8, <1>9, <1>10 DEF PairInv

\* xdph takes a message, and learns or forgets the session it is about.
LEMMA PairTaken ==
    ASSUME PairInv, xdphQ \in Seq(Message), xdphQ # <<>>, xdphQ' = Tail(xdphQ),
           unsent' = unsent, \A s \in Sessions : PhaseDrifts(s),
           \A s \in Sessions :
              s \in xdphSessions' <=>
                 \/ Head(xdphQ) = Msg("CreateSession", s)
                 \/ s \in xdphSessions /\ Head(xdphQ) # Msg("Close", s)
    PROVE  PairInv'
<1>1. /\ Len(xdphQ) \in Nat \ {0} /\ Len(xdphQ') = Len(xdphQ) - 1
      /\ \A n \in 1 .. Len(xdphQ') : xdphQ'[n] = xdphQ[n + 1]
      /\ Head(xdphQ) = xdphQ[1]
  BY HeadTailProperties, EmptySeq
<1>2. \A n \in 1 .. Len(xdphQ') : n + 1 \in 1 .. Len(xdphQ) /\ 1 < n + 1
  BY <1>1
<1>3. \A n \in 1 .. Len(xdphQ) : n # 1 => n - 1 \in 1 .. Len(xdphQ') /\ xdphQ'[n - 1] = xdphQ[n]
  BY <1>1
<1>4. 1 \in 1 .. Len(xdphQ)
  BY <1>1
<1>5. \A x : Queued(x)' => Queued(x)
  BY <1>1, <1>2 DEF Queued
<1>6. \A x : Queued(x) => x = Head(xdphQ) \/ Queued(x)'
  BY <1>1, <1>3 DEF Queued
<1>7. \A s \in Sessions, op \in Calls :
         Head(xdphQ) = Msg("Close", s) => ~Queued(Msg(op, s))'
  <2>1. SUFFICES ASSUME NEW s \in Sessions, NEW op \in Calls,
                        Head(xdphQ) = Msg("Close", s),
                        NEW n \in 1 .. Len(xdphQ'), xdphQ'[n] = Msg(op, s)
                 PROVE  FALSE
    BY DEF Queued
  <2>2. xdphQ[n + 1].who = s /\ xdphQ[1].who = s /\ xdphQ[1].op = "Close"
    BY <1>1, <2>1 DEF Msg
  <2>3. QED
    BY <1>2, <1>4, <2>2 DEF PairInv, CloseIsLast
<1>8. CloseIsLast'
  <2>1. SUFFICES ASSUME NEW m \in 1 .. Len(xdphQ'), NEW n \in 1 .. Len(xdphQ'),
                        m < n, xdphQ'[m].op = "Close"
                 PROVE  xdphQ'[n].who # xdphQ'[m].who
    BY DEF CloseIsLast
  <2>2. m + 1 < n + 1
    BY <2>1
  <2>3. QED
    BY <1>1, <1>2, <2>1, <2>2 DEF PairInv, CloseIsLast
<1>9. CloseIsOver'
  BY <1>1, <1>2 DEF PairInv, CloseIsOver, PhaseDrifts
<1>10. ASSUME NEW s \in Sessions, Known(s), ~Known(s)' PROVE Head(xdphQ) = Msg("Close", s)
  BY <1>6, <1>10 DEF Known, Msg
<1>11. ASSUME NEW s \in Sessions, Known(s)' PROVE Known(s) /\ Head(xdphQ) # Msg("Close", s)
  <2>1. Queued(Msg("CreateSession", s))' => Queued(Msg("CreateSession", s))
    BY <1>5
  <2>2. Head(xdphQ) = Msg("CreateSession", s) => Queued(Msg("CreateSession", s))
    BY <1>1, <1>4 DEF Queued
  <2>3. Msg("CreateSession", s) # Msg("Close", s)
    BY DEF Msg
  <2>4. Head(xdphQ) = Msg("Close", s) => ~Queued(Msg("CreateSession", s))'
    BY <1>7 DEF Calls, PortalCalls
  <2>5. s \in xdphSessions' \/ Queued(Msg("CreateSession", s))'
    BY <1>11 DEF Known, Msg
  <2>6. QED
    BY <2>1, <2>2, <2>3, <2>4, <2>5 DEF Known
<1>12. CreatedKnown'
  <2>1. SUFFICES ASSUME NEW s \in Sessions, phase'[s] \in {"creating", "created"},
                        <<"CreateSession", s>> \notin unsent, ~Known(s)'
                 PROVE  FALSE
    BY DEF CreatedKnown
  <2>2. Known(s) /\ phase[s] \notin Over
    BY <2>1 DEF PairInv, CreatedKnown, PhaseDrifts, Over
  <2>3. xdphQ[1] = Msg("Close", s)
    BY <1>1, <1>10, <2>1, <2>2
  <2>4. xdphQ[1].op = "Close" /\ xdphQ[1].who = s
    BY <2>3 DEF Msg
  <2>5. QED
    BY <1>4, <2>2, <2>4 DEF PairInv, CloseIsOver
<1>13. AskedPaired'
  <2>1. SUFFICES ASSUME NEW s \in Sessions, NEW n \in 1 .. Len(xdphQ'),
                        xdphQ'[n] = Ask(s), <<"CreateSession", s>> \notin unsent,
                        s \notin xdphSessions'
                 PROVE  \E m \in 1 .. n - 1 : xdphQ'[m] = Msg("CreateSession", s)
    BY DEF AskedPaired, Msg, Ask
  <2>2. xdphQ[n + 1] = Ask(s) /\ n + 1 \in 1 .. Len(xdphQ)
    BY <1>1, <1>2, <2>1
  <2>3. Head(xdphQ) # Msg("Close", s)
    <3>1. Queued(Msg("SelectSources", s))'
      BY <2>1 DEF Queued, Msg, Ask
    <3>2. QED
      BY <1>7, <3>1 DEF Calls
  <2>4. Head(xdphQ) # Msg("CreateSession", s) /\ s \notin xdphSessions
    BY <2>1, <2>3
  <2>5. PICK m \in 1 .. (n + 1) - 1 : xdphQ[m] = Msg("CreateSession", s)
    BY <2>1, <2>2, <2>4 DEF PairInv, AskedPaired
  <2>6. m # 1 /\ m \in 1 .. Len(xdphQ) /\ m - 1 \in 1 .. n - 1
    BY <1>1, <2>4, <2>5
  <2>7. QED
    BY <1>3, <2>5, <2>6
<1>14. CloseFollows'
  <2>1. SUFFICES ASSUME NEW s \in Sessions, phase'[s] \in {"closing", "closed"},
                        Known(s)'
                 PROVE  Queued(Msg("Close", s))' \/ <<"Close", s>> \in unsent
    BY DEF CloseFollows, Msg
  <2>2. Known(s) /\ Head(xdphQ) # Msg("Close", s)
    BY <1>11, <2>1
  <2>3. Queued(Msg("Close", s)) \/ <<"Close", s>> \in unsent
    BY <2>1, <2>2 DEF PairInv, CloseFollows, PhaseDrifts
  <2>4. QED
    BY <1>6, <2>2, <2>3
<1>15. QED
  BY <1>8, <1>9, <1>12, <1>13, <1>14 DEF PairInv

\* A handler's call is sent, or is not.
LEMMA PairCalls ==
    ASSUME IInv, PairInv, NEW op \in PortalCalls, NEW s \in Sessions,
           NEW sent \in BOOLEAN, CallXdph(op, s, sent), xdphSessions' = xdphSessions,
           phase[s] \notin Over,
           op = "Close" => phase'[s] \in Over,
           phase'[s] \in {"creating", "created"} => op = "CreateSession",
           phase'[s] \in {"closing", "closed"} => op = "Close",
           \A x \in Sessions \ {s} : phase'[x] = phase[x]
    PROVE  PairInv'
<1>1. CASE sent
  <2> DEFINE m == [op |-> op, who |-> s]
  <2>1. m \in Message /\ m.op = op /\ m.who = s
    BY DEF Message, Calls, Requesters
  <2>2. xdphQ' = Append(xdphQ, m) /\ unsent' = unsent /\ xdphQ \in Seq(Message)
    BY <1>1 DEF CallXdph, IInv, TypeOK
  <2>3. op # "SelectSources"
    BY DEF PortalCalls
  <2> HIDE DEF m
  <2>4. QED
    BY <2>1, <2>2, <2>3, PairSent
<1>2. CASE ~sent
  <2>1. xdphQ' = xdphQ /\ unsent' = unsent \cup {<<op, s>>}
    BY <1>2 DEF CallXdph
  <2>2. QED
    BY <2>1, PairUnsent
<1>3. QED
  BY <1>1, <1>2

\* One step, with each call of the frontend in its phase.
LEMMA PairStep == ASSUME IInv, PairInv, [Next]_vars PROVE PairInv'
<1>1. phase \in [Sessions -> Phases] /\ xdphQ \in Seq(Message)
      /\ Sessions \cap Apps = {}
  BY HandshakeAssumption DEF IInv, TypeOK
<1>2. ASSUME NEW s \in Sessions, PortalCreateSession(s) PROVE PairInv'
  <2>1. PICK sent \in BOOLEAN : CallXdph("CreateSession", s, sent)
    BY <1>2 DEF PortalCreateSession
  <2>2. /\ xdphSessions' = xdphSessions /\ phase[s] = "none"
        /\ phase' = [phase EXCEPT ![s] = "creating"]
    BY <1>2 DEF PortalCreateSession
  <2>3. phase'[s] = "creating" /\ \A x \in Sessions \ {s} : phase'[x] = phase[x]
    BY <1>1, <2>2
  <2>4. QED
    BY <2>1, <2>2, <2>3, PairCalls DEF Over, PortalCalls
<1>3. ASSUME NEW s \in Sessions, PortalStart(s) PROVE PairInv'
  <2>1. PICK sent \in BOOLEAN : CallXdph("Start", s, sent)
    BY <1>3 DEF PortalStart
  <2>2. /\ xdphSessions' = xdphSessions /\ phase[s] \in {"created", "selected"}
        /\ phase' = [phase EXCEPT ![s] = "starting"]
    BY <1>3 DEF PortalStart
  <2>3. phase'[s] = "starting" /\ \A x \in Sessions \ {s} : phase'[x] = phase[x]
    BY <1>1, <2>2
  <2>4. QED
    BY <2>1, <2>2, <2>3, PairCalls DEF Over, PortalCalls
<1>4. ASSUME NEW s \in Sessions, PortalClose(s) PROVE PairInv'
  <2>1. PICK sent \in BOOLEAN : CallXdph("Close", s, sent)
    BY <1>4 DEF PortalClose, CloseSends
  <2>2. /\ xdphSessions' = xdphSessions /\ phase[s] \notin Over
        /\ phase' = [phase EXCEPT ![s] = "closing"]
    BY <1>4 DEF PortalClose, Over
  <2>3. phase'[s] = "closing" /\ \A x \in Sessions \ {s} : phase'[x] = phase[x]
    BY <1>1, <2>2
  <2>4. QED
    BY <2>1, <2>2, <2>3, PairCalls DEF Over, PortalCalls
<1>5. ASSUME NEW s \in Sessions, FrontendSelectSources(s) PROVE PairInv'
  <2>1. /\ UNCHANGED <<xdphSessions, unsent>> /\ phase[s] = "created"
        /\ phase' = [phase EXCEPT ![s] = "selecting"]
        /\ xdphQ' = Append(xdphQ, Ask(s))
    BY <1>5 DEF FrontendSelectSources, Ask
  <2>2. phase'[s] = "selecting" /\ \A x \in Sessions \ {s} : phase'[x] = phase[x]
    BY <1>1, <2>1
  <2>3. Ask(s) \in Message /\ Ask(s).who = s /\ Ask(s).op = "SelectSources"
    BY DEF Ask, Message, Calls, Requesters
  <2>4. QED
    BY <1>1, <2>1, <2>2, <2>3, PairSent DEF Over, PortalCalls
<1>6. ASSUME NEW a \in Apps, AppSelectSources(a) PROVE PairInv'
  <2>1. /\ UNCHANGED <<xdphSessions, unsent, phase>>
        /\ xdphQ' = Append(xdphQ, Ask(a))
    BY <1>6 DEF AppSelectSources, Ask
  <2>2. /\ Ask(a) \in Message /\ Ask(a).who = a /\ Ask(a).op = "SelectSources"
        /\ a \notin Sessions
    BY <1>1 DEF Ask, Message, Calls, Requesters
  <2>3. QED
    BY <1>1, <2>1, <2>2, PairSent DEF PortalCalls
<1>7. CASE PortalReturns \/ PortalTimeout \/ PortalExit \/ PortalActivate \/ Tick
           \/ (\E s \in Sessions : FrontendDropsSession(s)) \/ UNCHANGED vars
           \/ PickerCheck \/ PickerConsume \/ PickerShare
  <2>1. UNCHANGED <<xdphQ, xdphSessions, unsent>>
    BY <1>7 DEF PortalReturns, PortalCreateReturn, PortalStartReturn,
                PortalCloseReturn, PortalTimeout, PortalExit, PortalActivate, Tick,
                FrontendDropsSession, PickerCheck, PickerConsume, PickerShare, vars
  <2>2. \A s \in Sessions : PhaseDrifts(s)
    <3>1. CASE PortalReturns
      <4>1. PICK s \in Sessions :
               PortalCreateReturn(s) \/ PortalStartReturn(s) \/ PortalCloseReturn(s)
        BY <3>1 DEF PortalReturns
      <4>2. /\ PortalCreateReturn(s) => phase[s] = "creating"
            /\ PortalStartReturn(s) => phase[s] = "starting"
            /\ PortalCloseReturn(s) => phase[s] = "closing"
        BY DEF PortalCreateReturn, PortalStartReturn, PortalCloseReturn, IInv,
               CallPhase
      <4>3. QED
        BY <1>1, <4>1, <4>2 DEF PortalCreateReturn, PortalStartReturn,
              PortalCloseReturn, StartPhase, PhaseDrifts, Over
    <3>2. CASE PortalExit
      BY <1>1, <3>2 DEF PortalExit, PhaseDrifts, Over
    <3>3. CASE \E s \in Sessions : FrontendDropsSession(s)
      BY <1>1, <3>3 DEF FrontendDropsSession, PhaseDrifts, Over
    <3>4. CASE PickerConsume \/ PickerShare
      BY <1>1, <3>4 DEF PickerConsume, PickerShare, PickerEnds, PhaseDrifts, Over
    <3>5. CASE UNCHANGED phase
      BY <3>5 DEF PhaseDrifts
    <3>6. QED
      BY <1>7, <3>1, <3>2, <3>3, <3>4, <3>5
         DEF PortalTimeout, PortalActivate, Tick, PickerCheck, vars
  <2>3. QED
    BY <2>1, <2>2, PairKept
<1>8. CASE XdphCreateSession \/ XdphSelectSources \/ XdphStart \/ XdphClose
  <2>1. /\ xdphQ # <<>> /\ xdphQ' = Tail(xdphQ) /\ unsent' = unsent
        /\ Head(xdphQ) \in Message
    BY <1>1, <1>8, HeadTailProperties
       DEF XdphCreateSession, XdphSelectSources, XdphStart, XdphClose, XdphTakes
  <2>2. PICK op \in Calls, w \in Requesters : Head(xdphQ) = [op |-> op, who |-> w]
    BY <2>1 DEF Message
  <2>3. \A s \in Sessions : PhaseDrifts(s)
    <3>1. CASE XdphSelectSources
      BY <1>1, <3>1 DEF XdphSelectSources, PhaseDrifts, Over
    <3>2. CASE UNCHANGED phase
      BY <3>2 DEF PhaseDrifts
    <3>3. QED
      BY <1>8, <3>1, <3>2 DEF XdphCreateSession, XdphStart, XdphClose
  <2>4. ASSUME NEW s \in Sessions
        PROVE  s \in xdphSessions' <=>
                 \/ Head(xdphQ) = Msg("CreateSession", s)
                 \/ s \in xdphSessions /\ Head(xdphQ) # Msg("Close", s)
    BY <1>8, <2>2 DEF XdphCreateSession, XdphSelectSources, XdphStart, XdphClose,
                      XdphTakes, Msg
  <2>5. QED
    BY <1>1, <2>1, <2>3, <2>4, PairTaken
<1>9. QED
  BY <1>2, <1>3, <1>4, <1>5, <1>6, <1>7, <1>8 DEF Next

LEMMA InitPair == Init => PairInv
BY DEF Init, PairInv, CloseIsLast, CloseIsOver, CreatedKnown, AskedPaired,
       CloseFollows, Known, Queued, Msg

LEMMA Pairing == Spec => [](IInv /\ PairInv)
<1>1. IInv /\ PairInv /\ [Next]_vars => PairInv'
  BY PairStep
<1>2. QED
  BY InitPair, <1>1, Invariance, PTL DEF Spec

\* xdph meets no SelectSources of a session it has not been told of, although
\* CreateSession in portal.cpp does not wait for a call that times out: for any
\* sessions, in any order of their calls.
THEOREM PairedFound == Spec => []SelectSourcesFindsPairedSession
<1>1. IInv /\ PairInv => SelectSourcesFindsPairedSession
  <2>1. SUFFICES ASSUME IInv, PairInv, NEW s \in Sessions, xdphQ # <<>>,
                        Head(xdphQ) = Ask(s), <<"CreateSession", s>> \notin unsent
                 PROVE  s \in xdphSessions
    BY DEF SelectSourcesFindsPairedSession, Ask
  <2>2. xdphQ[1] = Ask(s) /\ 1 \in 1 .. Len(xdphQ)
    BY <2>1, HeadTailProperties, EmptySeq, LenProperties DEF IInv, TypeOK
  <2>3. QED
    BY <2>1, <2>2 DEF PairInv, AskedPaired
<1>2. QED
  BY <1>1, Pairing, PTL

\* A session closed by the portal ends in xdph too, unless the Close of
\* Portal::CreateSession's session object could not be sent.
THEOREM ClosedFollows == Spec => []ClosedReachesXdph
<1>1. PairInv => ClosedReachesXdph
  BY DEF PairInv, CloseFollows, Known, Queued, Msg, ClosedReachesXdph
<1>2. QED
  BY <1>1, Pairing, PTL
=============================================================================
