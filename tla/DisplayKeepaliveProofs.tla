----------------------- MODULE DisplayKeepaliveProofs -----------------------
(****************************************************************************)
(* For any number of clients and threads: the count of clients is exact; a   *)
(* connected client keeps a keepalive thread behind it, provided no dispatch *)
(* raises; and a thread dispatches at most once after stop() has begun.      *)
(****************************************************************************)
EXTENDS DisplayKeepalive, FiniteSetTheorems, SequenceTheorems, TLAPS

Types ==
    /\ running \in BOOLEAN /\ keepalive_running \in BOOLEAN
    /\ active_clients \in Nat
    /\ reader \in ReaderSteps
    /\ thread \in [Threads -> ThreadSteps]
    /\ main \in {"up", "stopping", "stopped", "exited"}
    /\ late \in [Threads -> Nat]

\* stop() lowers running before anything else.
StopFirst == main # "up" => ~running

\* Where the reader is on its way from one line to the next.
ReaderKnows ==
    /\ reader \in {"stop", "lid", "off"} => active_clients = 0
    /\ reader = "spawn" /\ running => keepalive_running
    /\ reader = "read" /\ running /\ active_clients > 0 => keepalive_running

\* The flag is up with nobody behind it only between the two halves of
\* _start_display_keepalive.
FlagHasThread ==
    keepalive_running /\ running /\ reader # "spawn"
    => \E t \in Threads : thread[t] # "free"

IInv == Types /\ StopFirst /\ ReaderKnows /\ FlagHasThread

\* No dispatch ends its thread.
NeverRaises == "raised" \notin DispatchOutcomes

\* Nothing runs initially.
LEMMA InitIInv == Init => IInv
<1> SUFFICES ASSUME Init PROVE IInv
  OBVIOUS
<1>1. running /\ ~keepalive_running
  BY Zenon DEF Init
<1>2. running \in BOOLEAN /\ keepalive_running \in BOOLEAN
  BY Zenon DEF Init
<1>3. Types
  BY <1>2 DEF Init, Types, ReaderSteps, ThreadSteps
<1>4. StopFirst /\ ReaderKnows /\ FlagHasThread
  BY <1>1 DEF Init, StopFirst, ReaderKnows, FlagHasThread
<1>5. QED
  BY <1>3, <1>4 DEF IInv

\* The reader's steps.
LEMMA ReaderStep == ASSUME NeverRaises, IInv, Reader PROVE IInv'
<1> USE DEF IInv, Types, StopFirst, ReaderKnows, FlagHasThread, ReaderAt,
            ReaderSteps
<1>1. CASE ReadLine
  BY <1>1 DEF ReadLine, AfterConnect, AfterDisconnect
<1>2. CASE WakeDisplay
  BY <1>2 DEF WakeDisplay
<1>3. CASE StartKeepalive
  BY <1>3 DEF StartKeepalive
<1>4. CASE SpawnKeepalive
  BY <1>4 DEF SpawnKeepalive, ThreadSteps
<1>5. CASE StopKeepalive
  BY <1>5 DEF StopKeepalive
<1>6. CASE CheckLid
  BY <1>6 DEF CheckLid
<1>7. CASE RestoreSleep
  BY <1>7 DEF RestoreSleep
<1>8. QED
  BY <1>1, <1>2, <1>3, <1>4, <1>5, <1>6, <1>7 DEF Reader

\* A keepalive thread ends only when the flag or running is down.
LEMMA KeepaliveStep ==
    ASSUME NeverRaises, IInv, NEW t \in Threads, Keepalive(t)
    PROVE  IInv'
<1>1. UNCHANGED <<running, active_clients, keepalive_running, reader, main>>
  BY DEF Keepalive, LoopTest, SleepEnds, Decide, Dispatch, ThreadMoves
<1>2. PICK to \in ThreadSteps :
          /\ thread' = [thread EXCEPT ![t] = to]
          /\ to = "free" => ~(keepalive_running /\ running)
  BY DEF Keepalive, LoopTest, SleepEnds, Decide, Dispatch, ThreadMoves,
         LoopGoesOn, NeverRaises, ThreadSteps
<1>3. late' \in [Threads -> Nat]
  BY DEF Keepalive, LoopTest, SleepEnds, Decide, Dispatch, IInv, Types
<1>4. Types' /\ StopFirst' /\ ReaderKnows'
  BY <1>1, <1>2, <1>3 DEF IInv, Types, StopFirst, ReaderKnows
<1>5. FlagHasThread'
  BY <1>1, <1>2 DEF IInv, Types, FlagHasThread
<1>6. QED
  BY <1>4, <1>5 DEF IInv

\* The inductive invariant holds in every reachable state.
LEMMA Invariance == ASSUME NeverRaises PROVE Spec => []IInv
<1>1. IInv /\ [Next]_vars => IInv'
  <2> SUFFICES ASSUME IInv, [Next]_vars PROVE IInv'
    OBVIOUS
  <2>1. CASE HostConnects \/ HostDisconnects \/ IdleOff \/ LidMoves
    BY <2>1 DEF HostConnects, HostDisconnects, IdleOff, LidMoves, IInv, Types,
                StopFirst, ReaderKnows, FlagHasThread
  <2>2. CASE Reader
    BY <2>2, ReaderStep
  <2>3. ASSUME NEW t \in Threads, Keepalive(t) PROVE IInv'
    BY <2>3, KeepaliveStep
  <2>4. CASE StopRunning \/ StopFlag \/ Exit
    <3>1. UNCHANGED <<active_clients, reader, thread, late>>
      BY <2>4 DEF StopRunning, StopFlag, Exit, MainMoves
    <3>2. CASE StopRunning
      <4>1. ~running' /\ keepalive_running' = keepalive_running
        BY <3>2 DEF StopRunning
      <4>2. running' \in BOOLEAN /\ main' = "stopping"
        BY <3>2 DEF StopRunning, MainMoves
      <4>3. QED
        BY <3>1, <4>1, <4>2 DEF IInv, Types, StopFirst, ReaderKnows,
                                FlagHasThread
    <3>3. CASE StopFlag \/ Exit
      <4>1. /\ ~running /\ running' = running
            /\ main' \in {"stopped", "exited"}
        BY <3>3 DEF StopFlag, Exit, MainMoves, IInv, StopFirst
      <4>2. keepalive_running' \in BOOLEAN
        BY <3>3 DEF StopFlag, Exit, IInv, Types
      <4>3. QED
        BY <3>1, <4>1, <4>2 DEF IInv, Types, StopFirst, ReaderKnows,
                                FlagHasThread
    <3>4. QED
      BY <2>4, <3>2, <3>3
  <2>5. CASE UNCHANGED vars
    BY <2>5 DEF vars, IInv, Types, StopFirst, ReaderKnows, FlagHasThread
  <2>6. QED
    BY <2>1, <2>2, <2>3, <2>4, <2>5 DEF Next
<1>2. QED
  BY InitIInv, <1>1, PTL DEF Spec

\* A client that is there has a keepalive thread behind it whenever the
\* reader is between two lines, for any number of clients and threads.
THEOREM AwakeKept ==
    ASSUME NeverRaises PROVE Spec => []ClientKeepsDisplayAwake
<1>1. IInv => ClientKeepsDisplayAwake
  BY DEF IInv, ReaderKnows, FlagHasThread, ClientKeepsDisplayAwake
<1>2. QED
  BY <1>1, Invariance, PTL

----------------------------------------------------------------------------
\* A thread that has dispatched after stop() began is at its loop test or
\* gone, and stop() is never undone.
LateInv ==
    /\ late \in [Threads -> 0..1]
    /\ thread \in [Threads -> ThreadSteps]
    /\ \A t \in Threads :
           late[t] = 1 => ~running /\ thread[t] \in {"free", "test"}

\* One step of the late dispatches.
LEMMA LateStep == ASSUME LateInv, [Next]_vars PROVE LateInv'
<1> USE DEF LateInv
<1>1. ASSUME NEW t \in Threads, LoopTest(t) PROVE LateInv'
  BY <1>1 DEF LoopTest, ThreadMoves, LoopGoesOn, ThreadSteps
<1>2. ASSUME NEW t \in Threads, SleepEnds(t) \/ Decide(t) PROVE LateInv'
  BY <1>2 DEF SleepEnds, Decide, ThreadMoves, ThreadSteps
<1>3. ASSUME NEW t \in Threads, Dispatch(t) PROVE LateInv'
  BY <1>3 DEF Dispatch, ThreadMoves, ThreadSteps
<1>4. CASE SpawnKeepalive
  BY <1>4 DEF SpawnKeepalive, ThreadSteps
<1>5. CASE StopRunning
  BY <1>5 DEF StopRunning, MainMoves
<1>6. CASE UNCHANGED <<late, thread, running>>
  BY <1>6
<1>7. QED
  BY <1>1, <1>2, <1>3, <1>4, <1>5, <1>6
     DEF Next, Reader, Keepalive, HostConnects, HostDisconnects, IdleOff,
         LidMoves, ReadLine, WakeDisplay, StartKeepalive, StopKeepalive,
         CheckLid, RestoreSleep, StopFlag, Exit, MainMoves, vars

\* No thread wakes the display twice after stop() has begun.
THEOREM LateOnce == Spec => []LateDispatchAtMostOnce
<1>1. Init => LateInv
  BY DEF Init, LateInv, ThreadSteps
<1>2. LateInv /\ [Next]_vars => LateInv'
  BY LateStep
<1>3. LateInv => LateDispatchAtMostOnce
  BY DEF LateInv, LateDispatchAtMostOnce
<1>4. QED
  BY <1>1, <1>2, <1>3, PTL DEF Spec

----------------------------------------------------------------------------
(* The count of clients. max(0, active_clients - 1) could swallow a           *)
(* disconnect; that it never does is what makes the count exact.              *)

\* Where, and how often, the first n lines of q say what line does.
Places(q, n, line) == {m \in 1 .. n : q[m] = line}
Among(q, n, line) == Cardinality(Places(q, n, line))

LEMMA AmongType ==
    ASSUME NEW q, NEW n \in Nat, NEW line
    PROVE  /\ IsFiniteSet(Places(q, n, line))
           /\ Among(q, n, line) \in Nat
           /\ n = 0 => Among(q, n, line) = 0
<1>1. IsFiniteSet(1 .. n) /\ Places(q, n, line) \in SUBSET (1 .. n)
  BY FS_Interval DEF Places
<1>2. IsFiniteSet(Places(q, n, line))
  BY <1>1, FS_Subset
<1>3. n = 0 => Places(q, n, line) = {}
  BY DEF Places
<1>4. QED
  BY <1>2, <1>3, FS_CardinalityType, FS_EmptySet DEF Among

LEMMA AmongAppend ==
    ASSUME NEW T, NEW q \in Seq(T), NEW x \in T, NEW line,
           NEW n \in 0 .. Len(q)
    PROVE  /\ Among(Append(q, x), n, line) = Among(q, n, line)
           /\ Among(Append(q, x), Len(q) + 1, line) =
                  Among(q, Len(q), line) + (IF x = line THEN 1 ELSE 0)
<1> DEFINE r == Append(q, x)
           S == Places(q, Len(q), line)
<1>1. Len(q) \in Nat /\ (\A m \in 1 .. Len(q) : r[m] = q[m]) /\ r[Len(q) + 1] = x
  BY AppendProperties, LenProperties
<1> HIDE DEF r
<1>2. Places(r, n, line) = Places(q, n, line)
  BY <1>1 DEF Places
<1>3. Places(r, Len(q) + 1, line) = IF x = line THEN S \cup {Len(q) + 1} ELSE S
  BY <1>1 DEF Places
<1>4. Len(q) + 1 \notin S
  BY <1>1 DEF Places
<1>5. IsFiniteSet(S)
  BY <1>1, AmongType
<1>6. Cardinality(S \cup {Len(q) + 1}) = Cardinality(S) + 1 /\ Cardinality(S) \in Nat
  BY <1>4, <1>5, FS_AddElement, FS_CardinalityType
<1>7. QED
  BY <1>2, <1>3, <1>6 DEF Among, r

LEMMA AmongTail ==
    ASSUME NEW T, NEW q \in Seq(T), q # <<>>, NEW line,
           NEW n \in 0 .. Len(q) - 1
    PROVE  Among(q, n + 1, line) =
               Among(Tail(q), n, line) + (IF Head(q) = line THEN 1 ELSE 0)
<1> DEFINE r == Tail(q)
           A == Places(r, n, line)
           B == Places(q, n + 1, line) \ {1}
           f == [m \in A |-> m + 1]
<1>1. /\ Len(q) \in Nat /\ n \in Nat /\ Head(q) = q[1]
      /\ \A m \in 1 .. Len(q) - 1 : r[m] = q[m + 1]
  BY HeadTailProperties, LenProperties, EmptySeq
<1> HIDE DEF r
<1>2. f \in [A -> B]
  BY <1>1 DEF Places
<1>3. \A l, m \in A : f[l] = f[m] => l = m
  BY <1>1 DEF Places
<1>4. \A b \in B : b - 1 \in A /\ f[b - 1] = b
  BY <1>1 DEF Places
<1>5. f \in Bijection(A, B)
  BY <1>2, <1>3, <1>4 DEF Bijection, Injection, Surjection, IsInjective
<1>6. IsFiniteSet(A) /\ Cardinality(A) \in Nat
  BY <1>1, AmongType, FS_CardinalityType
<1> HIDE DEF A, B, f
<1>7. IsFiniteSet(B) /\ Cardinality(B) = Cardinality(A)
  BY <1>5, <1>6, FS_Bijection DEF ExistsBijection
<1>8. Places(q, n + 1, line) = IF Head(q) = line THEN B \cup {1} ELSE B
  BY <1>1 DEF Places, B
<1>9. 1 \notin B
  BY DEF B
<1>10. Cardinality(B \cup {1}) = Cardinality(B) + 1
  BY <1>7, <1>9, FS_AddElement
<1>11. QED
  BY <1>6, <1>7, <1>8, <1>10 DEF Among, r, A

\* With the first n lines of the pipe read, no more disconnects than connects.
NeverBelow ==
    \A n \in 0 .. Len(pipe) :
        active_clients + Among(pipe, n, "connected")
            >= Among(pipe, n, "disconnected")

\* Every client counted, or about to be, has connected.
OnlyConnects ==
    /\ active_clients + Unread("connected") <= connects
    /\ clients <= connects

CountInv == TypeOK /\ CountFollowsHost /\ NeverBelow /\ OnlyConnects

\* The pipe is what Unread looks at.
LEMMA UnreadIsAmong ==
    ASSUME NEW line PROVE Unread(line) = Among(pipe, Len(pipe), line)
BY DEF Unread, Among, Places

\* The host writes a line.
LEMMA CountWrites ==
    ASSUME CountInv, NEW line \in {"connected", "disconnected"},
           pipe' = Append(pipe, line), active_clients' = active_clients,
           IF line = "connected"
             THEN clients' = clients + 1 /\ connects' = connects + 1
             ELSE clients > 0 /\ clients' = clients - 1 /\ connects' = connects
    PROVE  CountFollowsHost' /\ NeverBelow' /\ OnlyConnects'
<1> DEFINE L == {"connected", "disconnected"}
           A(n, l) == Among(pipe, n, l)
           B(n, l) == Among(pipe', n, l)
<1>1. /\ pipe \in Seq(L) /\ Len(pipe) \in Nat /\ pipe' \in Seq(L)
      /\ Len(pipe') = Len(pipe) + 1
      /\ active_clients \in Nat /\ clients \in Nat /\ connects \in Nat
  BY LenProperties, AppendProperties, KeepaliveAssumption DEF CountInv, TypeOK
<1>2. \A n \in 0 .. Len(pipe), l \in L : A(n, l) \in Nat /\ B(n, l) = A(n, l)
  <2> SUFFICES ASSUME NEW n \in 0 .. Len(pipe), NEW l \in L
               PROVE  A(n, l) \in Nat /\ B(n, l) = A(n, l)
    OBVIOUS
  <2>1. n \in Nat
    BY <1>1
  <2>2. A(n, l) \in Nat
    BY <2>1, AmongType
  <2>3. B(n, l) = A(n, l)
    BY <1>1, AmongAppend
  <2>4. QED
    BY <2>2, <2>3
<1>3. \A l \in L : B(Len(pipe) + 1, l) = A(Len(pipe), l) + (IF line = l THEN 1 ELSE 0)
  BY <1>1, AmongAppend
<1>4. /\ active_clients + A(Len(pipe), "connected")
            = clients + A(Len(pipe), "disconnected")
      /\ active_clients + A(Len(pipe), "connected") <= connects
      /\ clients <= connects
  BY UnreadIsAmong DEF CountInv, CountFollowsHost, OnlyConnects
<1>5. \A n \in 0 .. Len(pipe) :
          active_clients + A(n, "connected") >= A(n, "disconnected")
  BY DEF CountInv, NeverBelow
<1> HIDE DEF A, B
<1>6. /\ active_clients' + B(Len(pipe) + 1, "connected")
            = clients' + B(Len(pipe) + 1, "disconnected")
      /\ active_clients' + B(Len(pipe) + 1, "connected") <= connects'
      /\ clients' <= connects'
  <2>1. A(Len(pipe), "connected") \in Nat /\ A(Len(pipe), "disconnected") \in Nat
    BY <1>1, <1>2
  <2>2. CASE line = "connected"
    <3>1. /\ B(Len(pipe) + 1, "connected") = A(Len(pipe), "connected") + 1
          /\ B(Len(pipe) + 1, "disconnected") = A(Len(pipe), "disconnected")
      BY <1>3, <2>1, <2>2
    <3>2. QED
      BY <1>1, <1>4, <2>1, <2>2, <3>1
  <2>3. CASE line = "disconnected"
    <3>1. /\ B(Len(pipe) + 1, "connected") = A(Len(pipe), "connected")
          /\ B(Len(pipe) + 1, "disconnected") = A(Len(pipe), "disconnected") + 1
      BY <1>3, <2>1, <2>3
    <3>2. QED
      BY <1>1, <1>4, <2>1, <2>3, <3>1
  <2>4. QED
    BY <2>2, <2>3
<1>7. \A n \in 0 .. Len(pipe) + 1 :
          active_clients' + B(n, "connected") >= B(n, "disconnected")
  <2> SUFFICES ASSUME NEW n \in 0 .. Len(pipe) + 1
               PROVE  active_clients' + B(n, "connected") >= B(n, "disconnected")
    OBVIOUS
  <2>1. CASE n = Len(pipe) + 1
    BY <1>1, <1>2, <1>3, <1>4, <2>1
  <2>2. CASE n \in 0 .. Len(pipe)
    BY <1>1, <1>2, <1>5, <2>2
  <2>3. QED
    BY <1>1, <2>1, <2>2
<1>8. \A l \in L : Unread(l)' = B(Len(pipe) + 1, l)
  BY <1>1 DEF Unread, Among, Places, B
<1>9. QED
  BY <1>1, <1>6, <1>7, <1>8 DEF CountFollowsHost, NeverBelow, OnlyConnects, B

\* The reader takes a line; a disconnect finds a client to count down.
LEMMA CountReads ==
    ASSUME CountInv, ReadLine
    PROVE  /\ CountFollowsHost' /\ NeverBelow' /\ OnlyConnects'
           /\ active_clients' \in 0 .. MaxConnects
           /\ pipe' \in Seq({"connected", "disconnected"})
<1> DEFINE L == {"connected", "disconnected"}
           A(n, l) == Among(pipe, n, l)
           B(n, l) == Among(pipe', n, l)
<1>1. /\ pipe \in Seq(L) /\ Len(pipe) \in Nat \ {0} /\ pipe # <<>>
      /\ pipe' = Tail(pipe) /\ Head(pipe) \in L
      /\ pipe' \in Seq(L) /\ Len(pipe') = Len(pipe) - 1
      /\ active_clients \in Nat /\ clients \in Nat /\ connects \in Nat
      /\ connects <= MaxConnects
  BY LenProperties, HeadTailProperties, EmptySeq, KeepaliveAssumption
     DEF CountInv, TypeOK, ReadLine
<1>2. \A n \in 0 .. Len(pipe), l \in L : A(n, l) \in Nat /\ A(0, l) = 0
  BY <1>1, AmongType
<1>3. \A n \in 0 .. Len(pipe) - 1, l \in L : B(n, l) \in Nat
  BY <1>1, AmongType
<1>4. \A n \in 0 .. Len(pipe) - 1, l \in L :
          A(n + 1, l) = B(n, l) + (IF Head(pipe) = l THEN 1 ELSE 0)
  BY <1>1, AmongTail
<1>5. \A l \in L : B(0, l) = 0
  BY <1>1, AmongType
<1>6. /\ active_clients + A(Len(pipe), "connected")
            = clients + A(Len(pipe), "disconnected")
      /\ active_clients + A(Len(pipe), "connected") <= connects
      /\ clients <= connects
  BY UnreadIsAmong DEF CountInv, CountFollowsHost, OnlyConnects
<1>7. \A n \in 0 .. Len(pipe) :
          active_clients + A(n, "connected") >= A(n, "disconnected")
  BY DEF CountInv, NeverBelow
<1>8. clients' = clients /\ connects' = connects
  BY DEF ReadLine
<1>9. active_clients' = active_clients + (IF Head(pipe) = "connected" THEN 1 ELSE 0)
                                       - (IF Head(pipe) = "disconnected" THEN 1 ELSE 0)
      /\ active_clients' \in Nat
  <2>1. CASE Head(pipe) = "connected"
    BY <1>1, <2>1 DEF ReadLine, AfterConnect
  <2>2. CASE Head(pipe) = "disconnected"
    <3>1. A(1, "disconnected") = 1 /\ A(1, "connected") = 0
      <4>1. 0 \in 0 .. Len(pipe) - 1 /\ 0 + 1 = 1
        BY <1>1
      <4> HIDE DEF A, B
      <4>2. QED
        BY <1>4, <1>5, <2>2, <4>1
    <3>2. active_clients >= 1
      <4>1. 1 \in 0 .. Len(pipe)
        BY <1>1
      <4> HIDE DEF A, B
      <4>2. QED
        BY <1>1, <1>7, <3>1, <4>1
    <3>3. QED
      BY <1>1, <2>2, <3>2 DEF ReadLine, AfterDisconnect
  <2>3. QED
    BY <1>1, <2>1, <2>2
<1> HIDE DEF A, B
<1>10. \A l \in L : A(Len(pipe), l) = B(Len(pipe) - 1, l)
                                         + (IF Head(pipe) = l THEN 1 ELSE 0)
                    /\ B(Len(pipe) - 1, l) \in Nat
  BY <1>1, <1>3, <1>4
<1>11. /\ active_clients' + B(Len(pipe) - 1, "connected")
             = clients' + B(Len(pipe) - 1, "disconnected")
       /\ active_clients' + B(Len(pipe) - 1, "connected") <= connects'
       /\ clients' <= connects'
  <2> DEFINE n == Len(pipe) - 1
  <2>0. B(n, "connected") \in Nat /\ B(n, "disconnected") \in Nat
    BY <1>10
  <2>1. /\ A(Len(pipe), "connected")
               = B(n, "connected") + (IF Head(pipe) = "connected" THEN 1 ELSE 0)
        /\ A(Len(pipe), "disconnected")
               = B(n, "disconnected") + (IF Head(pipe) = "disconnected" THEN 1 ELSE 0)
    BY <1>10
  <2>2. active_clients \in Nat /\ clients \in Nat /\ connects \in Nat
    BY <1>1
  <2> SUFFICES /\ active_clients' + B(n, "connected") = clients' + B(n, "disconnected")
               /\ active_clients' + B(n, "connected") <= connects'
               /\ clients' <= connects'
    OBVIOUS
  <2> HIDE DEF n
  <2>3. CASE Head(pipe) = "connected"
    <3>1. /\ active_clients' = active_clients + 1
          /\ A(Len(pipe), "connected") = B(n, "connected") + 1
          /\ A(Len(pipe), "disconnected") = B(n, "disconnected")
      BY <1>9, <2>0, <2>1, <2>2, <2>3
    <3>2. QED
      BY <1>6, <1>8, <2>0, <2>2, <3>1
  <2>4. CASE Head(pipe) = "disconnected"
    <3>1. /\ active_clients' = active_clients - 1
          /\ A(Len(pipe), "connected") = B(n, "connected")
          /\ A(Len(pipe), "disconnected") = B(n, "disconnected") + 1
      BY <1>9, <2>0, <2>1, <2>2, <2>4
    <3>2. QED
      BY <1>6, <1>8, <2>0, <2>2, <3>1
  <2>5. QED
    BY <1>1, <2>3, <2>4
<1>12. \A n \in 0 .. Len(pipe) - 1 :
           active_clients' + B(n, "connected") >= B(n, "disconnected")
  <2> SUFFICES ASSUME NEW n \in 0 .. Len(pipe) - 1
               PROVE  active_clients' + B(n, "connected") >= B(n, "disconnected")
    OBVIOUS
  <2>1. n + 1 \in 0 .. Len(pipe)
    BY <1>1
  <2>2. active_clients + A(n + 1, "connected") >= A(n + 1, "disconnected")
    BY <1>7, <2>1
  <2>3. \A l \in L : A(n + 1, l) = B(n, l) + (IF Head(pipe) = l THEN 1 ELSE 0)
                     /\ B(n, l) \in Nat
    BY <1>3, <1>4
  <2>4. QED
    BY <1>1, <1>9, <2>2, <2>3
<1>13. \A l \in L : Unread(l)' = B(Len(pipe) - 1, l)
  BY <1>1 DEF Unread, Among, Places, B
<1>14. CountFollowsHost' /\ NeverBelow' /\ OnlyConnects'
  BY <1>1, <1>11, <1>12, <1>13 DEF CountFollowsHost, NeverBelow, OnlyConnects, B
<1>15. active_clients' \in 0 .. MaxConnects
  <2>1. B(Len(pipe) - 1, "connected") \in Nat
    BY <1>10
  <2>2. active_clients' <= connects'
    BY <1>1, <1>8, <1>9, <1>11, <2>1
  <2>3. QED
    BY <1>1, <1>8, <1>9, <2>2, KeepaliveAssumption
<1>16. QED
  BY <1>1, <1>14, <1>15

\* What the count is about, besides the pipe, moves in ReadLine only.
LEMMA CountStays ==
    ASSUME CountInv, UNCHANGED <<active_clients, pipe, clients, connects>>
    PROVE  CountFollowsHost' /\ NeverBelow' /\ OnlyConnects'
BY DEF CountInv, CountFollowsHost, NeverBelow, OnlyConnects, Unread, Among, Places

\* The variables the count is not about keep their types.
LEMMA OtherTypes ==
    ASSUME CountInv, Next
    PROVE  /\ running' \in BOOLEAN /\ keepalive_running' \in BOOLEAN
           /\ reader' \in ReaderSteps
           /\ thread' \in [Threads -> ThreadSteps]
           /\ main' \in {"up", "stopping", "stopped", "exited"}
           /\ display' \in {"on", "off"} /\ lid' \in {"open", "closed"}
           /\ restored' \in BOOLEAN
           /\ late' \in [Threads -> 0..2]
<1> USE DEF CountInv, TypeOK, ReaderSteps, ThreadSteps
<1>0. CASE HostConnects \/ HostDisconnects
  BY <1>0 DEF HostConnects, HostDisconnects
<1>1. CASE IdleOff \/ LidMoves
  BY <1>1 DEF IdleOff, LidMoves
<1>2. CASE ReadLine \/ WakeDisplay \/ StartKeepalive \/ SpawnKeepalive
  BY <1>2 DEF ReadLine, WakeDisplay, StartKeepalive, SpawnKeepalive
<1>3. CASE StopKeepalive \/ CheckLid
  BY <1>3 DEF StopKeepalive, CheckLid
<1>4. CASE RestoreSleep
  <2>1. restored' \in BOOLEAN
    BY Zenon, <1>4 DEF RestoreSleep
  <2>2. QED
    BY <1>4, <2>1 DEF RestoreSleep
<1>5. ASSUME NEW t \in Threads, LoopTest(t) \/ SleepEnds(t) \/ Decide(t)
      PROVE  /\ UNCHANGED <<running, keepalive_running, reader, main, display, lid,
                            restored, late>>
             /\ thread' \in [Threads -> ThreadSteps]
  BY <1>5 DEF LoopTest, SleepEnds, Decide, ThreadMoves
<1>6. ASSUME NEW t \in Threads, Dispatch(t)
      PROVE  /\ UNCHANGED <<running, keepalive_running, reader, main, lid, restored>>
             /\ thread' \in [Threads -> ThreadSteps]
             /\ display' \in {"on", "off"}
             /\ late' \in [Threads -> 0..2]
  BY <1>6 DEF Dispatch, ThreadMoves
<1>7. CASE StopRunning \/ StopFlag \/ Exit
  <2>1. UNCHANGED <<reader, thread, display, lid, restored, late>>
    BY <1>7 DEF StopRunning, StopFlag, Exit, MainMoves
  <2>2. main' \in {"stopping", "stopped", "exited"}
    BY <1>7 DEF StopRunning, StopFlag, Exit, MainMoves
  <2>3. running' \in BOOLEAN /\ keepalive_running' \in BOOLEAN
    BY Zenon, <1>7 DEF StopRunning, StopFlag, Exit
  <2>4. QED
    BY <2>1, <2>2, <2>3
<1>8. QED
  BY <1>0, <1>1, <1>2, <1>3, <1>4, <1>5, <1>6, <1>7 DEF Next, Reader, Keepalive

\* One step of the whole.
LEMMA CountStep == ASSUME CountInv, [Next]_vars PROVE CountInv'
<1>1. /\ active_clients \in 0 .. MaxConnects /\ clients \in 0 .. MaxConnects
      /\ connects \in 0 .. MaxConnects /\ clients <= connects
      /\ pipe \in Seq({"connected", "disconnected"})
  BY DEF CountInv, TypeOK, OnlyConnects
<1>2. CASE Next
  <2>1. CASE HostConnects
    <3>1. CountFollowsHost' /\ NeverBelow' /\ OnlyConnects'
      BY <2>1, CountWrites DEF HostConnects
    <3>2. /\ active_clients' = active_clients
          /\ clients' \in 0 .. MaxConnects /\ connects' \in 0 .. MaxConnects
          /\ pipe' \in Seq({"connected", "disconnected"})
      BY <1>1, <2>1, AppendProperties, KeepaliveAssumption DEF HostConnects
    <3>3. QED
      BY <1>1, <1>2, <3>1, <3>2, OtherTypes DEF CountInv, TypeOK
  <2>2. CASE HostDisconnects
    <3>1. CountFollowsHost' /\ NeverBelow' /\ OnlyConnects'
      BY <2>2, CountWrites DEF HostDisconnects
    <3>2. /\ active_clients' = active_clients
          /\ clients' \in 0 .. MaxConnects /\ connects' = connects
          /\ pipe' \in Seq({"connected", "disconnected"})
      BY <1>1, <2>2, AppendProperties, KeepaliveAssumption DEF HostDisconnects
    <3>3. QED
      BY <1>1, <1>2, <3>1, <3>2, OtherTypes DEF CountInv, TypeOK
  <2>3. CASE ReadLine
    <3>1. clients' = clients /\ connects' = connects
      BY <2>3 DEF ReadLine
    <3>2. QED
      BY <1>1, <1>2, <2>3, <3>1, CountReads, OtherTypes DEF CountInv, TypeOK
  <2>4. CASE UNCHANGED <<active_clients, pipe, clients, connects>>
    BY <1>1, <1>2, <2>4, CountStays, OtherTypes DEF CountInv, TypeOK
  <2>5. QED
    BY <1>2, <2>1, <2>2, <2>3, <2>4
       DEF Next, IdleOff, LidMoves, Reader, WakeDisplay, StartKeepalive,
           SpawnKeepalive, StopKeepalive, CheckLid, RestoreSleep, Keepalive,
           LoopTest, SleepEnds, Decide, Dispatch, ThreadMoves, StopRunning,
           StopFlag, Exit, MainMoves
<1>3. CASE UNCHANGED vars
  <2>1. CountFollowsHost' /\ NeverBelow' /\ OnlyConnects'
    BY <1>3, CountStays DEF vars
  <2>2. TypeOK'
    BY <1>3 DEF vars, CountInv, TypeOK
  <2>3. QED
    BY <2>1, <2>2 DEF CountInv
<1>4. QED
  BY <1>2, <1>3

LEMMA InitCount == Init => CountInv
<1> SUFFICES ASSUME Init PROVE CountInv
  OBVIOUS
<1>1. pipe = <<>> /\ Len(pipe) = 0 /\ active_clients = 0 /\ clients = 0 /\ connects = 0
  BY DEF Init
<1>2. \A line : Among(pipe, 0, line) = 0 /\ Unread(line) = 0
  BY <1>1, AmongType, UnreadIsAmong
<1>3. CountFollowsHost /\ NeverBelow /\ OnlyConnects
  BY <1>1, <1>2 DEF CountFollowsHost, NeverBelow, OnlyConnects
<1>4. running \in BOOLEAN /\ keepalive_running \in BOOLEAN /\ restored \in BOOLEAN
  BY Zenon DEF Init
<1>5. TypeOK
  BY <1>1, <1>4, KeepaliveAssumption DEF Init, TypeOK, ReaderSteps, ThreadSteps
<1>6. QED
  BY <1>3, <1>5 DEF CountInv

LEMMA Counting == Spec => []CountInv
<1>1. CountInv /\ [Next]_vars => CountInv'
  BY CountStep
<1>2. QED
  BY InitCount, <1>1, PTL DEF Spec

\* The count and the pipe keep their ranges, whatever a dispatch does.
THEOREM TypeCorrect == Spec => []TypeOK
BY Counting, PTL DEF CountInv

\* max(0, active_clients - 1) in stream_host_output never hides a disconnect:
\* for any number of clients the count is the clients connected, but for the
\* lines not read yet.
THEOREM CountExact == Spec => []CountFollowsHost
BY Counting, PTL DEF CountInv
=============================================================================
